---- MODULE Spec2Model ----
(***************************************************************************)
(* The HTTP resource client of sokool/ion: Endpoint.execute (endpoint.go)  *)
(* around the shared API descriptor (api.go), the Store (storage.go), the  *)
(* Locker (locker.go) and the Limiter (limiter.go).                        *)
(*                                                                         *)
(* Each call of execute is a process that walks through the statements of  *)
(* execute; every access to shared state (lock table, Store, limiter map,  *)
(* API.mu / API.client, the transport) is a step of its own.               *)
(***************************************************************************)
EXTENDS Integers, Sequences, FiniteSets, TLC

\* ------------------------------------------------------------------ bounds
NCalls == 2
Calls == 1..NCalls
MaxTime == 2

\* ------------------------------------------------------------ byte strings
\* Byte strings are sequences of symbols. Q is the byte '"', BadByte a byte
\* that is no valid UTF-8, Replacement the rune U+FFFD, Escaped* the escape
\* sequences encoding/json writes for them.
Q == "q"
BadByte == "x"
Replacement == "u"
EscapedQ == "\\q"
EscapedReplacement == "\\ufffd"

\* The bodies the upstream can answer with: nothing, the JSON number 1,
\* an unterminated object, a JSON string holding an invalid UTF-8 byte.
Bodies == { <<>>, <<"1">>, <<"{">>, <<Q, BadByte, Q>> }

\* The values a caller passes as request body
ReqBodies == { "b1", "b2" }

RECURSIVE EscapeString(_)
EscapeString(s) ==
  IF s = <<>> THEN <<>>
  ELSE LET c == Head(s)
           e == IF c = Q THEN EscapedQ
                ELSE IF c = BadByte THEN EscapedReplacement
                ELSE c
       IN <<e>> \o EscapeString(Tail(s))

\* json.Marshal of a Go string
MarshalString(s) == <<Q>> \o EscapeString(s) \o <<Q>>

RECURSIVE UnescapeString(_)
UnescapeString(s) ==
  IF s = <<>> THEN <<>>
  ELSE LET c == Head(s)
           d == IF c = EscapedQ THEN Q
                ELSE IF c = EscapedReplacement THEN Replacement
                ELSE IF c = BadByte THEN Replacement
                ELSE c
       IN <<d>> \o UnescapeString(Tail(s))

\* A JSON string literal: quoted, no bare quote inside
IsJSONString(b) ==
  /\ Len(b) >= 2
  /\ b[1] = Q
  /\ b[Len(b)] = Q
  /\ \A i \in 2..(Len(b) - 1) : b[i] # Q

\* json.Valid
ValidJSON(b) == b = <<"1">> \/ IsJSONString(b)

\* json.Unmarshal into *string: [ok, s]
UnmarshalString(b) ==
  IF IsJSONString(b)
  THEN [ok |-> TRUE, s |-> UnescapeString(SubSeq(b, 2, Len(b) - 1))]
  ELSE [ok |-> FALSE, s |-> <<>>]

\* json.Unmarshal into the raw JSON type: validity check, then a copy
UnmarshalJSON(b) == IF ValidJSON(b) THEN [ok |-> TRUE, v |-> b] ELSE [ok |-> FALSE, v |-> <<>>]

\* --------------------------------------------------------------- variables
VARIABLES
  api,       \* the descriptor: [URL, Cache, limiter, Authorization, Errors]
  ep,        \* ep[c]: the Endpoint value call c executes
  locker,    \* package variable locker: TRUE once UseLocker registered one
  testMode,  \* InUnitTests() and a handler registered for the host
  Cache,     \* the Store (memory): key -> stored bytes
  deadline,  \* per stored key, the time its Set asked it to live until
  now,       \* wall clock
  limiters,  \* per limiter, its map key -> token bucket
  mu,        \* API.mu: 0 when free, else the call holding it
  client,    \* API.client: 0 when nil, else the call that constructed it
  builds,    \* number of http.Client constructions
  authCalls, \* number of Authorization invocations
  holds,     \* holds[c]: the lock handles c has locked, in the order taken
  pc,        \* pc[c]: position of call c in execute
  ctxDone,   \* ctxDone[c]: the call's context is canceled when execute starts
  hit,       \* hit[c]: the cache lookup of call c returned bytes
  sawNil,    \* sawNil[c]: run read a.client == nil under the mutex
  b,         \* b[c]: <<>> when nil, else <<bytes>>: the response bytes
  tok,       \* tok[c]: the Authorization header run injected (<<>> if none)
  used,      \* used[c]: 0, or the client instance the call dispatched through
  resp,      \* resp[c]: <<>> or <<[status, body, closed]>>, the response
             \* received and whether execute closes its body
  waited,    \* waited[c]: the limiters call c consulted
  out,       \* out[c]: what execute returned: [kind, v]
  reqs,      \* reqs[i]: a request handed to Endpoint.hash and the order in
             \* which the range over its headers enumerates them
  fps,       \* fps[i]: <<>> or <<k>>, the key Endpoint.hash returned for reqs[i]
  op,        \* the last call made on the Store or the Descriptor's helpers
  vals,      \* vals[i]: <<>> or <<e>>, the Endpoint values built so far
  maps,      \* the maps allocated: reference -> [name -> value]
  domains,   \* the Descriptors allocated: reference -> [Errors]
  cred,      \* cred[c]: the userinfo of the Descriptor call c goes through
  expires,   \* expires[c]: <<e>>, the lifetime the Auth Provider of call c
             \* returns with its tokens, or <<>> for any lifetime
  jobs,      \* the Jobs value: <<>> before NewJobs
  pubsub     \* the in-memory PubSub: <<>> while no topic is used

vars == <<api, ep, locker, testMode, Cache, deadline, now, limiters, mu, client,
          builds, authCalls, holds, pc, ctxDone, hit, sawNil, b, tok, used, resp,
          waited, out, reqs, fps, op, vals, maps, domains,
          cred, expires, jobs, pubsub>>

\* ------------------------------------------------------------- fingerprint
HeaderOrder == <<"Accept", "Authorization", "Content-Type">>
HeaderIndex(n) == CHOOSE i \in 1..Len(HeaderOrder) : HeaderOrder[i] = n
HeaderLess(x, y) == HeaderIndex(x) < HeaderIndex(y)

RECURSIVE SetToSeq(_)
SetToSeq(S) == IF S = {} THEN <<>>
               ELSE LET x == CHOOSE x \in S : TRUE IN <<x>> \o SetToSeq(S \ {x})

\* the orders in which a range over the map h can enumerate its names
Enumerations(h) ==
  { o \in [1..Cardinality(DOMAIN h) -> DOMAIN h] :
      \A i, j \in DOMAIN o : i # j => o[i] # o[j] }

\* the names left as the range enumerated them
UnsortedNames(o) == o

\* sort.Strings(hk) over the names the range collected
SortedNames(o) == SortSeq(o, HeaderLess)

\* execute: the Content-Type defaults to JSON for a non-empty body
HeadersOf(e) ==
  IF "Content-Type" \notin DOMAIN e.headers /\ e.body # ""
  THEN e.headers @@ ("Content-Type" :> <<"application/json">>)
  ELSE e.headers

ContentType(e) == IF "Content-Type" \in DOMAIN HeadersOf(e)
                  THEN HeadersOf(e)["Content-Type"] ELSE <<>>

\* Endpoint.reader: the serialized request body
reader(e) ==
  CASE ContentType(e) = <<"application/json">> ->
         <<IF e.body = "" THEN "null" ELSE e.body, "\n">>
    [] ContentType(e) = <<"application/x-www-form-urlencoded">> -> <<e.body>>
    [] ContentType(e) = <<"text/plain">> -> <<e.body>>
    [] OTHER -> <<>>

\* the absolute URL of the request
URLOf(e) == <<"https://host:", e.path>>

RECURSIVE HeaderNames(_, _)
\* "name\n" for each name of the sequence: the values left out of the key
HeaderNames(h, names) ==
  IF names = <<>> THEN <<>>
  ELSE <<Head(names), "\n">> \o HeaderNames(h, Tail(names))

RECURSIVE HeaderLines(_, _)
\* "name: value\n" for each name of the sequence, in its order
HeaderLines(h, names) ==
  IF names = <<>> THEN <<>>
  ELSE <<Head(names), ": ">> \o h[Head(names)] \o <<"\n">>
         \o HeaderLines(h, Tail(names))

\* e.key as bytes
KeyBytes(e) == IF e.key = "" THEN <<>> ELSE <<e.key>>

\* Endpoint.hash with the content hashed whether a key is set or not
PreimageContent(e, o) ==
  <<e.method, "\n">> \o URLOf(e) \o <<"\n">> \o KeyBytes(e) \o <<"\n">>
    \o HeaderLines(HeadersOf(e), SortedNames(o)) \o reader(e) \o <<"\n">>

\* Endpoint.hash: the string fed to md5, o the order in which the range over
\* the request's headers enumerates them
Preimage(e, o) ==
  <<e.method, "\n">> \o URLOf(e) \o <<"\n">> \o KeyBytes(e) \o <<"\n">>
    \o (IF e.key = ""
        THEN HeaderLines(HeadersOf(e), SortedNames(o)) \o reader(e) \o <<"\n">>
        ELSE <<>>)

\* md5 + hex: injective on the pre-images of the model
hash(e, o) == <<"md5">> \o Preimage(e, o)

\* the key execute works under: the names enumerated in some order
key(c) == hash(ep[c], SetToSeq(DOMAIN HeadersOf(ep[c])))

\* the key API.auth stores the token under
TokenKey == <<"rest:tokens:", "host">>


\* -------------------------------------------------------------------- Store
\* memory.Get: <<>> for (nil, nil), else <<bytes>>
memoryGet(k) == IF k \in DOMAIN Cache THEN <<Cache[k]>> ELSE <<>>

\* memory.Set: the ttl is not used
memorySet(k, v, ttl) == [x \in DOMAIN Cache \cup {k} |-> IF x = k THEN v ELSE Cache[x]]

\* what the caller of Set asked for: the entry lives until now + ttl
deadlineSet(k, ttl) ==
  [x \in DOMAIN deadline \cup {k} |-> IF x = k THEN now + ttl ELSE deadline[x]]

\* Get[T] with T = *string on what Cache.Get returned, bytes r and error err:
\* [n, s]; n = 0 not found, -1 failed, else bytes read
GetResult(r, err) ==
  LET n == IF r = <<>> THEN 0 ELSE Len(r[1])
  IN IF err # "nil" THEN [n |-> -1, s |-> <<>>]
     ELSE IF n = 0 THEN [n |-> 0, s |-> <<>>]
     ELSE LET u == UnmarshalString(r[1])
          IN IF u.ok THEN [n |-> n, s |-> u.s] ELSE [n |-> -1, s |-> <<>>]

\* Get[T] with T = *string on the in-memory Store, which returns no error
Get(k) == GetResult(memoryGet(k), "nil")

\* Set[T] with T = string on the error Cache.Set returned: the bytes written,
\* or -1
SetResult(v, err) == IF err # "nil" THEN -1 ELSE Len(MarshalString(v))

\* the per-call TTL taken as it is, the Descriptor's default never used
ttlOfOverride(t) == t

\* API.get / API.set: the TTL the call resolves to
ttlOf(t) == IF t <= 0 THEN api.Cache ELSE t

\* API.get: <<>> for nil, else <<bytes>>
get(k, t) ==
  IF ttlOf(t) <= 0 THEN <<>>
  ELSE LET g == Get(k) IN IF g.n <= 0 THEN <<>> ELSE <<g.s>>

\* API.set wrote the Store (Set[T] returned its byte count) or returned -1
setWrites(t) == ttlOf(t) > 0

\* API.set: the Store after it
set(k, v, t) == IF setWrites(t) THEN memorySet(k, MarshalString(v), ttlOf(t)) ELSE Cache

setDeadline(k, t) == IF setWrites(t) THEN deadlineSet(k, ttlOf(t)) ELSE deadline

\* ------------------------------------------------------------------ Locker
\* NewLocker that hands the registered Locker one name for every key
NewLockerOneName(c, name) ==
  IF ~locker \/ name = <<>> THEN <<"mutex", c>> ELSE <<"locker", <<>>>>

\* NewLocker that never consults the registered Locker
NewLockerUnshared(c, name) == <<"mutex", c>>

\* NewLocker handing out one process-wide mutex per name when no Locker is
\* registered
NewLockerKeyed(c, name) == <<"locker", name>>

\* NewLocker: a mutex of its own for the call, or the registered Locker's
\* handle for the name
NewLocker(c, name) ==
  IF ~locker \/ name = <<>> THEN <<"mutex", c>> ELSE <<"locker", name>>

\* the handles that are locked
Locked == UNION { { holds[d][i] : i \in 1..Len(holds[d]) } : d \in Calls }

\* mu.Lock() returns only when the handle is free
CanLock(h) == h \notin Locked

\* ----------------------------------------------------------------- Limiter
\* rate.NewLimiter(rps, 1): a full bucket of one token
NewBucket == [tokens |-> 1, last |-> now]

\* rate.Limiter: one token per time unit, at most one kept
Tokens(bk) == IF bk.tokens + (now - bk.last) >= 1 THEN 1 ELSE 0

\* limiter.Check on limiter l for key k: the outcome and the limiter's map
Check(l, k, canceled) ==
  LET m  == limiters[l]
      m1 == IF k \in DOMAIN m THEN [m EXCEPT ![k] = NewBucket] ELSE m
  IN IF k \notin DOMAIN m1
     THEN [res |-> "panic", m |-> m1]
     ELSE IF Tokens(m1[k]) >= 1
     THEN [res |-> "nil", m |-> [m1 EXCEPT ![k] = [tokens |-> 0, last |-> now]]]
     ELSE IF canceled THEN [res |-> "canceled", m |-> m1]
     ELSE [res |-> "block", m |-> m1]

\* Endpoint.wait preferring the Descriptor's limiter
waitLimiterDomainFirst(c) ==
  IF api.limiter THEN <<"domain">>
  ELSE IF ep[c].limiter THEN <<"endpoint">>
  ELSE <<>>

\* Endpoint.wait: the limiters consulted, in order of preference
waitLimiter(c) ==
  IF ep[c].limiter THEN <<"endpoint">>
  ELSE IF api.limiter THEN <<"domain">>
  ELSE <<>>

waitKey(l) == IF l = "endpoint" THEN "uuid" ELSE "name"

\* ------------------------------------------------------------ the results
Zero == [kind |-> "none", v |-> <<>>]
Result(kind, v) == [kind |-> kind, v |-> v]

StatusText(st) == IF st = 404 THEN "404 Not Found" ELSE "200 OK"

\* mu.Unlock() written at the end of execute instead of deferred
ReturnUnlockAtEnd(c, o) ==
  /\ out' = [out EXCEPT ![c] = o]
  /\ pc' = [pc EXCEPT ![c] = "done"]
  /\ holds' = [holds EXCEPT ![c] = IF o.kind = "ok" THEN <<>> ELSE @]

\* execute when a failed attempt is sent again instead of returned
ReturnRetry(c, o) ==
  IF o.kind \in {"TransportError", "UpstreamError", "DecodeError"}
  THEN /\ pc' = [pc EXCEPT ![c] = "dispatch"]
       /\ UNCHANGED <<out, holds>>
  ELSE /\ out' = [out EXCEPT ![c] = o]
       /\ pc' = [pc EXCEPT ![c] = "done"]
       /\ holds' = [holds EXCEPT ![c] = <<>>]

\* execute returns: the deferred mu.Unlock() runs on every way out
Return(c, o) ==
  /\ out' = [out EXCEPT ![c] = o]
  /\ pc' = [pc EXCEPT ![c] = "done"]
  /\ holds' = [holds EXCEPT ![c] = <<>>]

Goto(c, l) == pc' = [pc EXCEPT ![c] = l]


\* ----------------------------------------------------------------- execute
\* the variables no step of execute changes
config == <<api, ep, locker, testMode, ctxDone, now, reqs, fps, op, vals,
            maps, domains, cred, expires, jobs, pubsub>>

\* execute with the test of the origin URL left out
URLNotTested == FALSE

\* the test e.domain.URL == nil
URLIsNil == ~api.URL

\* execute up to the fingerprint: no origin URL is a configuration error
Begin(c) ==
  /\ pc[c] = "start"
  /\ IF URLIsNil
     THEN Return(c, Result("ConfigError", <<>>))
     ELSE /\ Goto(c, IF ep[c].lock THEN "lock" ELSE "lookup")
          /\ UNCHANGED <<out, holds>>
  /\ UNCHANGED <<config, Cache, deadline, limiters, mu, client, builds,
                 authCalls, hit, sawNil, b, tok, used, resp, waited>>

\* mu := NewLocker(cx, key); mu.Lock(); defer mu.Unlock()
Acquire(c) ==
  /\ pc[c] = "lock"
  /\ CanLock(NewLocker(c, key(c)))
  /\ holds' = [holds EXCEPT ![c] = <<NewLocker(c, key(c))>>]
  /\ Goto(c, "lookup")
  /\ UNCHANGED <<config, Cache, deadline, limiters, mu, client, builds,
                 authCalls, hit, sawNil, b, tok, used, resp, waited, out>>

\* the test len(b) == 0 in place of b == nil
isMissLen(r) == r = <<>> \/ Len(r[1]) = 0

\* the test b == nil after the cache lookup
isMiss(r) == r = <<>>

\* the cache lookup when the lock is given back right after it
LookupReleasing(c) ==
  /\ pc[c] = "lookup"
  /\ b' = [b EXCEPT ![c] = get(key(c), ep[c].cache)]
  /\ hit' = [hit EXCEPT ![c] = b'[c] # <<>>]
  /\ holds' = [holds EXCEPT ![c] = <<>>]
  /\ Goto(c, IF isMiss(b'[c]) THEN "wait" ELSE "decode")
  /\ UNCHANGED <<config, Cache, deadline, limiters, mu, client, builds,
                 authCalls, sawNil, tok, used, resp, waited, out>>

\* b = e.domain.get(cx, key, e.cache)
Lookup(c) ==
  /\ pc[c] = "lookup"
  /\ b' = [b EXCEPT ![c] = get(key(c), ep[c].cache)]
  /\ hit' = [hit EXCEPT ![c] = b'[c] # <<>>]
  /\ Goto(c, IF isMiss(b'[c]) THEN "wait" ELSE "decode")
  /\ UNCHANGED <<config, Cache, deadline, limiters, mu, client, builds,
                 authCalls, holds, sawNil, tok, used, resp, waited, out>>

\* e.wait(cx): blocks while the bucket is empty and the context is live
Wait(c) ==
  /\ pc[c] = "wait"
  /\ LET ls == waitLimiter(c) IN
     IF ls = <<>>
     THEN /\ Goto(c, "run")
          /\ UNCHANGED <<limiters, waited, out, holds>>
     ELSE LET l == ls[1]
              r == Check(l, waitKey(l), ctxDone[c])
          IN /\ r.res # "block"
             /\ limiters' = [limiters EXCEPT ![l] = r.m]
             /\ waited' = [waited EXCEPT ![c] = @ \cup {l}]
             /\ CASE r.res = "nil" -> Goto(c, "run") /\ UNCHANGED <<out, holds>>
                  [] r.res = "panic" -> Return(c, Result("panic", <<>>))
                  [] OTHER -> Return(c, Result("Canceled", <<>>))
  /\ UNCHANGED <<config, Cache, deadline, mu, client, builds, authCalls, hit,
                 sawNil, b, tok, used, resp>>

\* API.run without the mutex
MuAbsent == TRUE

\* a.mu.Lock() returns only when the mutex is free
MuFree == mu = 0

\* API.run: a.mu.Lock(); the test a.client == nil
RunEnter(c) ==
  /\ pc[c] = "run"
  /\ MuFree
  /\ mu' = c
  /\ sawNil' = [sawNil EXCEPT ![c] = (client = 0)]
  /\ Goto(c, "build")
  /\ UNCHANGED <<config, Cache, deadline, limiters, client, builds, authCalls,
                 holds, hit, b, tok, used, resp, waited, out>>

\* API.run: a.client = &http.Client{...} when it was nil; a.mu.Unlock()
RunBuild(c) ==
  /\ pc[c] = "build"
  /\ IF sawNil[c]
     THEN client' = c /\ builds' = builds + 1
     ELSE UNCHANGED <<client, builds>>
  /\ mu' = 0
  /\ Goto(c, "auth")
  /\ UNCHANGED <<config, Cache, deadline, limiters, authCalls, holds, hit,
                 sawNil, b, tok, used, resp, waited, out>>

\* API.auth when a call waits while another call is with the Auth Provider
AuthSerialized(c) ==
  /\ pc[c] = "auth"
  /\ \A d \in Calls \ {c} : pc[d] # "provider"
  /\ LET t == get(TokenKey, 1) IN
     IF ~api.Authorization
     THEN Goto(c, "dispatch") /\ UNCHANGED tok
     ELSE IF t # <<>> /\ Len(t[1]) # 0
     THEN Goto(c, "dispatch") /\ tok' = [tok EXCEPT ![c] = t[1]]
     ELSE Goto(c, "provider") /\ UNCHANGED tok
  /\ UNCHANGED <<config, Cache, deadline, limiters, mu, client, builds,
                 authCalls, holds, hit, sawNil, b, used, resp, waited, out>>

\* API.auth up to the Authorization call: no provider, or the cached token
Auth(c) ==
  /\ pc[c] = "auth"
  /\ LET t == get(TokenKey, 1) IN
     IF ~api.Authorization
     THEN Goto(c, "dispatch") /\ UNCHANGED tok
     ELSE IF t # <<>> /\ Len(t[1]) # 0
     THEN Goto(c, "dispatch") /\ tok' = [tok EXCEPT ![c] = t[1]]
     ELSE Goto(c, "provider") /\ UNCHANGED tok
  /\ UNCHANGED <<config, Cache, deadline, limiters, mu, client, builds,
                 authCalls, holds, hit, sawNil, b, used, resp, waited, out>>

\* the token taken as the Auth Provider returned it
TrimSpaceNone(t) == t

\* strings.TrimSpace
TrimSpace(t) == IF t = <<" ">> THEN <<>> ELSE t

\* the seconds from now to the expiry the Auth Provider of call c returns
Lifetimes(c) == IF expires[c] = <<>> THEN 0..1 ELSE {expires[c][1]}

\* what a.Authorization(r) can return: an error, or a token, issued to the
\* credentials of the Descriptor, and the seconds it is valid for
ProviderResults(c) ==
  { [err |-> TRUE, tkn |-> <<>>, expires |-> 0] }
    \cup [err : {FALSE},
          tkn : { <<>>, <<" ">>, <<"t" \o ToString(authCalls + 1)>> \o cred[c] },
          expires : Lifetimes(c)]

\* API.auth from the Authorization call on: a.set(key, tkn, exp.Sub(now))
Provider(c) ==
  /\ pc[c] = "provider"
  /\ authCalls' = authCalls + 1
  /\ \E r \in ProviderResults(c) :
       IF r.err \/ TrimSpace(r.tkn) = <<>>
          THEN /\ Return(c, Result("AuthError", <<>>))
               /\ UNCHANGED <<Cache, deadline, tok>>
          ELSE /\ Cache' = set(TokenKey, TrimSpace(r.tkn), r.expires)
               /\ deadline' = setDeadline(TokenKey, r.expires)
               /\ tok' = [tok EXCEPT ![c] = TrimSpace(r.tkn)]
               /\ Goto(c, "dispatch")
               /\ UNCHANGED <<out, holds>>
  /\ UNCHANGED <<config, limiters, mu, client, builds, hit, sawNil, b, used,
                 resp, waited>>

\* API.run: the test-mode handler, or a.client.Do(r); a canceled context makes
\* the transport return before it sends
Dispatch(c) ==
  /\ pc[c] = "dispatch"
  /\ IF testMode
     THEN Goto(c, "inflight") /\ UNCHANGED <<used, out, holds>>
     ELSE IF ctxDone[c]
     THEN Return(c, Result("Canceled", <<>>)) /\ UNCHANGED used
     ELSE /\ used' = [used EXCEPT ![c] = client]
          /\ Goto(c, "inflight")
          /\ UNCHANGED <<out, holds>>
  /\ UNCHANGED <<config, Cache, deadline, limiters, mu, client, builds,
                 authCalls, hit, sawNil, b, tok, resp, waited>>

\* the test res.StatusCode >= 500
IsServerError(st) == st >= 500

\* the test res.StatusCode >= 400
IsUpstreamError(st) == st >= 400

\* what the error mapper e.domain.Errors can return
MapperResults == { Result("MappedError", <<>>), Result("nil", <<>>) }

\* execute on a response with status >= 400 when the mapper is never asked
upstreamErrorGeneric(st, body) ==
  LET text == IF body = <<>> THEN <<StatusText(st)>> ELSE body
  IN { Result("UpstreamError", <<StatusText(st)>> \o text) }

\* execute on a response with status >= 400
upstreamError(st, body) ==
  LET text == IF body = <<>> THEN <<StatusText(st)>> ELSE body
  IN IF api.Errors THEN MapperResults
     ELSE { Result("UpstreamError", <<StatusText(st)>> \o text) }

\* how a.client.Do can fail once the request is on its way: the connection,
\* or the context canceled or timed out in flight
TransportErrors == { Result("TransportError", <<>>), Result("Canceled", <<>>) }

\* the transport fails, or the response arrives: an upstream error for a
\* status >= 400, with the close of the body deferred, else the body is read
\* and written to the cache, and not closed
Respond(c) ==
  /\ pc[c] = "inflight"
  /\ \/ /\ ~testMode
        /\ \E o \in TransportErrors : Return(c, o)
        /\ UNCHANGED <<resp, b, Cache, deadline>>
     \/ \E st \in {200, 404}, body \in Bodies :
          /\ resp' = [resp EXCEPT ![c] =
                        <<[status |-> st, body |-> body,
                           closed |-> IsUpstreamError(st)]>>]
          /\ IF IsUpstreamError(st)
             THEN /\ \E o \in upstreamError(st, body) : Return(c, o)
                  /\ UNCHANGED <<b, Cache, deadline>>
             ELSE /\ b' = [b EXCEPT ![c] = <<body>>]
                  /\ Cache' = set(key(c), body, ep[c].cache)
                  /\ deadline' = setDeadline(key(c), ep[c].cache)
                  /\ Goto(c, "decode")
                  /\ UNCHANGED <<out, holds>>
  /\ UNCHANGED <<config, limiters, mu, client, builds, authCalls, hit, sawNil,
                 tok, used, waited>>

\* what execute returns for the bytes x: json.Unmarshal(b, &out) when there
\* are any
decoded(x) ==
  IF Len(x) = 0 THEN Result("ok", <<>>)
  ELSE IF UnmarshalJSON(x).ok THEN Result("ok", UnmarshalJSON(x).v)
  ELSE Result("DecodeError", <<>>)

\* the end of execute when a decode failure deletes the entry of the key
DecodeInvalidating(c) ==
  /\ pc[c] = "decode"
  /\ Return(c, decoded(b[c][1]))
  /\ IF decoded(b[c][1]).kind = "DecodeError"
     THEN /\ Cache' = [k \in DOMAIN Cache \ {key(c)} |-> Cache[k]]
          /\ deadline' = [k \in DOMAIN deadline \ {key(c)} |-> deadline[k]]
     ELSE UNCHANGED <<Cache, deadline>>
  /\ UNCHANGED <<config, limiters, mu, client, builds,
                 authCalls, hit, sawNil, b, tok, used, resp, waited>>

\* the end of execute: decode and return
Decode(c) ==
  /\ pc[c] = "decode"
  /\ Return(c, decoded(b[c][1]))
  /\ UNCHANGED <<config, Cache, deadline, limiters, mu, client, builds,
                 authCalls, hit, sawNil, b, tok, used, resp, waited>>

\* call c is about to read the Store's key table: memory.Get from API.get
\* when a TTL resolves, or from API.auth
StoreReads(c) ==
  \/ pc[c] = "lookup" /\ ttlOf(ep[c].cache) > 0
  \/ pc[c] = "auth" /\ api.Authorization

\* call c is about to write the Store's key table: memory.Set from API.set
\* after the response, or from API.auth after the Auth Provider
StoreWrites(c) ==
  \/ pc[c] = "inflight" /\ setWrites(ep[c].cache)
  \/ pc[c] \in {"provider", "token"}

\* two calls are about to access the map of memory, one of them writing:
\* the map has no mutex and nothing orders the two accesses
StoreRace ==
  \E c, d \in Calls :
    c # d /\ StoreWrites(d) /\ (StoreReads(c) \/ StoreWrites(c))

\* the runtime finds the map read and written at once and aborts the
\* process ("fatal error: concurrent map read and map write"): no deferred
\* call runs and no call returns
Fatal ==
  /\ StoreRace
  /\ pc' = [c \in Calls |-> "fatal"]
  /\ UNCHANGED <<config, Cache, deadline, limiters, mu, client, builds,
                 authCalls, holds, hit, sawNil, b, tok, used, resp, waited, out>>

\* time passes
Tick ==
  /\ now < MaxTime
  /\ now' = now + 1
  /\ UNCHANGED <<api, ep, locker, testMode, ctxDone, Cache, deadline, limiters,
                 mu, client, builds, authCalls, holds, pc, hit, sawNil, b, tok,
                 used, resp, waited, out, reqs, fps, op, vals, maps, domains,
                 cred, expires, jobs, pubsub>>

\* ---------------------------------------------------------- configurations
NoHeaders == [n \in {} |-> ""]

\* the descriptors APIFromURL and its setters can build
APIs == [URL : BOOLEAN, Cache : 0..1, limiter : BOOLEAN,
         Authorization : BOOLEAN, Errors : BOOLEAN]

\* &API{}
ZeroAPI == [URL |-> FALSE, Cache |-> 0, limiter |-> FALSE,
            Authorization |-> FALSE, Errors |-> FALSE]

\* the endpoint values the builder methods can yield
Endpoints == [method : {"POST"}, path : {"/p"}, headers : {NoHeaders},
              body : ReqBodies, key : {""}, cache : 0..1,
              limiter : BOOLEAN, lock : BOOLEAN]

\* the calls execute endpoint values derived from one endpoint by Body and Limit
Derived(f) == \A c, d \in Calls : f[c].cache = f[d].cache /\ f[c].lock = f[d].lock

\* no request fingerprinted on its own
NoRequests == reqs = <<>> /\ fps = <<>>

\* no call made on the Store from outside execute
NoOp == op = [name |-> "none"]

\* no Endpoint value built beside those the calls execute
NoValues == vals = <<>> /\ maps = <<>> /\ domains = <<>>

\* no Jobs value made and no topic used
NoTasks == jobs = <<>> /\ pubsub = <<>>

\* a Descriptor whose URL has no userinfo
NoCreds == <<>>

\* the state after construction: a descriptor of A, the endpoints F[c], the
\* Locker registered or not as L says, contexts canceled or not as X says
SetupWith(A, F, L, X, K) ==
  /\ api \in A
  /\ cred \in [Calls -> K]
  /\ ep \in F
  /\ locker \in L
  /\ ctxDone \in [Calls -> X]
  /\ testMode = FALSE
  /\ Cache = [k \in {} |-> <<>>]
  /\ deadline = [k \in {} |-> 0]
  /\ now = 0
  /\ limiters = [l \in {"domain", "endpoint"} |-> [k \in {} |-> NewBucket]]
  /\ mu = 0
  /\ client = 0
  /\ builds = 0
  /\ authCalls = 0
  /\ holds = [c \in Calls |-> <<>>]
  /\ pc = [c \in Calls |-> "start"]
  /\ hit = [c \in Calls |-> FALSE]
  /\ sawNil = [c \in Calls |-> FALSE]
  /\ b = [c \in Calls |-> <<>>]
  /\ tok = [c \in Calls |-> <<>>]
  /\ used = [c \in Calls |-> 0]
  /\ resp = [c \in Calls |-> <<>>]
  /\ waited = [c \in Calls |-> {}]
  /\ out = [c \in Calls |-> Zero]

\* an Auth Provider that returns any expiry
AnyLifetime == expires = [c \in Calls |-> <<>>]

\* the same when every call goes through the one Descriptor, without userinfo
SetupOf(A, F, L, X) == SetupWith(A, F, L, X, {NoCreds}) /\ AnyLifetime

\* the state after construction when the calls execute values derived from
\* one endpoint of E and nothing else is going on
Setup(A, E, L, X) ==
  /\ SetupOf(A, { f \in [Calls -> E] : Derived(f) }, L, X)
  /\ NoRequests
  /\ NoOp
  /\ NoValues
  /\ NoTasks

\* the steps of execute
Step(c) ==
  \/ Begin(c)
  \/ Acquire(c)
  \/ Lookup(c)
  \/ Wait(c)
  \/ RunEnter(c)
  \/ RunBuild(c)
  \/ Auth(c)
  \/ Dispatch(c)
  \/ Respond(c)
  \/ Decode(c)

\* Any descriptor and endpoints, concurrent calls, no time passing
Init == Setup({ZeroAPI} \cup {a \in APIs : a.URL}, Endpoints, BOOLEAN, BOOLEAN)

Next == (\E c \in Calls : Step(c) \/ Provider(c)) \/ Fatal

Spec == Init /\ [][Next]_vars

\* Descriptors without limiter, Auth Provider and error mapper, live contexts:
\* the calls meet at the lock, the cache and the transport only
InitLock ==
  Setup({a \in APIs : a.URL /\ ~a.limiter /\ ~a.Authorization /\ ~a.Errors},
        {e \in Endpoints : ~e.limiter}, BOOLEAN, {FALSE})

NextLock == \E c \in Calls : Step(c)

\* the calls, and the abort a race on the Store can end them with
NextRace == NextLock \/ Fatal

SpecLock == InitLock /\ [][NextRace]_vars

\* Descriptors with an Auth Provider while time passes
InitClock ==
  Setup({a \in APIs : a.URL /\ ~a.limiter /\ a.Authorization /\ ~a.Errors},
        {e \in Endpoints : ~e.limiter /\ e.body = "b1"}, {FALSE}, {FALSE})

NextClock == Next \/ Tick

SpecClock == InitClock /\ [][NextClock]_vars

\* ------------------------------------------------------------------ claims
Locking == \A c \in Calls : ep[c].lock
Identical == \A c, d \in Calls : key(c) = key(d)
Caching == \A c \in Calls : ttlOf(ep[c].cache) > 0
AllDone == \A c \in Calls : pc[c] = "done"
NoFailure == \A c \in Calls : out[c].kind \in {"ok", "DecodeError"}

\* the calls that handed their request to the transport
Senders == { c \in Calls : used[c] # 0 }

\* between lock acquisition and release
InCritical(c) ==
  /\ ep[c].lock
  /\ pc[c] \in {"lookup", "wait", "run", "build", "auth", "provider",
                "dispatch", "inflight", "decode"}

ValidUTF8(s) == \A i \in 1..Len(s) : s[i] # BadByte

\* what a later Get returns for a body written to the cache
CachedCopy(body) == UnmarshalString(MarshalString(body)).s

Exclusive ==
  \A c, d \in Calls :
    (c # d /\ InCritical(c) /\ InCritical(d)) => key(c) # key(d)

\* a call at the lock gets it unless a call with its own key holds it
Unimpeded ==
  \A c \in Calls :
    (pc[c] = "lock" /\ \A d \in Calls \ {c} : InCritical(d) => key(d) # key(c))
      => ENABLED Acquire(c)

C3_Released ==
  \A c \in Calls :
    /\ pc[c] = "done" => holds[c] = <<>>
    /\ InCritical(c) => holds[c] = <<NewLocker(c, key(c))>>

\* C3 witness: two calls with Lock(true) have left execute, one through the
\* limiter's panic and one with an upstream error
C3_Witness ==
  \E c, d \in Calls :
    /\ ep[c].lock /\ ep[d].lock
    /\ pc[c] = "done" /\ out[c].kind = "panic"
    /\ pc[d] = "done" /\ out[d].kind = "UpstreamError"

\* the keys execute caches responses under
Fingerprints == DOMAIN Cache \ {TokenKey}

\* every cached response is the body of a response below 400 to that key
FromSuccess ==
  \A k \in Fingerprints :
    \E c \in Calls :
      /\ key(c) = k
      /\ resp[c] # <<>>
      /\ resp[c][1].status < 400
      /\ Cache[k] = MarshalString(resp[c][1].body)

\* the step that receives a response of 400 or above writes no cache entry
NoWriteOnError ==
  \A c \in Calls :
    (resp'[c] # resp[c] /\ resp'[c][1].status >= 400) => Cache' = Cache

\* C4: in every reachable state each response-cache entry under a
\* fingerprint key holds the body of a network response to that key whose
\* status was < 400, and the step that receives a response with status
\* >= 400 leaves the cache as it was.
C4_CacheOnlySuccess == []FromSuccess /\ [][NoWriteOnError]_vars

\* C4 witness: one call got a 404 and its key has no entry, another call got
\* a 200 and its body is the entry of its key
C4_Witness ==
  \E c, d \in Calls :
    /\ resp[c] # <<>> /\ resp[c][1].status = 404 /\ key(c) \notin DOMAIN Cache
    /\ resp[d] # <<>> /\ resp[d][1].status = 200 /\ key(d) \in DOMAIN Cache

\* C5: a call whose cache lookup returned bytes goes straight to the decode:
\* it consults no limiter, resolves no auth, sends nothing, receives nothing
\* (so writes no cache entry) and returns the cached bytes decoded.
C5_HitShortCircuits ==
  \A c \in Calls :
    hit[c] =>
      /\ pc[c] \in {"decode", "done"}
      /\ waited[c] = {}
      /\ tok[c] = <<>>
      /\ used[c] = 0
      /\ resp[c] = <<>>
      /\ pc[c] = "done" => out[c] = decoded(b[c][1])

\* C5 witness: on a descriptor with an Auth Provider a call with a limiter
\* of its own was served from the cache and has returned
C5_Witness ==
  \E c \in Calls :
    /\ hit[c] /\ pc[c] = "done" /\ out[c].kind = "ok"
    /\ ep[c].limiter /\ api.Authorization

\* C6: a call whose context is canceled before the network call starts
\* returns the cancellation error, sends nothing and receives nothing.
C6_CanceledBeforeNetwork ==
  \A c \in Calls :
    (api.URL /\ ctxDone[c] /\ pc[c] = "done")
      => out[c].kind = "Canceled" /\ used[c] = 0 /\ resp[c] = <<>>

\* C7: Check on the limiter a call waits on returns nil when the key's
\* bucket holds a token (a new bucket holds one), else blocks, or returns
\* the context's error when the context is canceled.
C7_CheckReturns ==
  \A c \in Calls :
    (pc[c] = "wait" /\ waitLimiter(c) # <<>>) =>
      LET l == waitLimiter(c)[1]
          r == Check(l, waitKey(l), ctxDone[c])
      IN /\ r.res \in {"nil", "block", "canceled"}
         /\ r.res = "canceled" => ctxDone[c]
         /\ waitKey(l) \notin DOMAIN limiters[l] => r.res = "nil"

\* C8: no execute call panics, the first rate-limited call included.
C8_NoPanic == \A c \in Calls : out[c].kind # "panic"

\* C9: with a token cached for the host, a call that resolves its auth
\* before the token's expiry injects the cached token without invoking the
\* Auth Provider, and one at or after the expiry goes to the Auth Provider.
C9_TokenUntilExpiry ==
  [][\A c \in Calls :
       (pc[c] = "auth" /\ pc'[c] # "auth" /\ api.Authorization
          /\ TokenKey \in DOMAIN Cache)
         => IF now < deadline[TokenKey]
            THEN pc'[c] = "dispatch" /\ tok'[c] = get(TokenKey, 1)[1]
            ELSE pc'[c] = "provider"]_vars

\* C10: the transport is constructed at most once, a call past the
\* construction finds it constructed, and every call dispatches through
\* that one instance.
C10_OneTransport ==
  /\ builds <= 1
  /\ \A c \in Calls :
       /\ pc[c] \in {"auth", "provider", "dispatch", "inflight"} => client # 0
       /\ used[c] # 0 => used[c] = client
  /\ \A c, d \in Calls : (used[c] # 0 /\ used[d] # 0) => used[c] = used[d]

\* C10 witness: two calls were in run while the client was nil, one of them
\* constructed it and both dispatched
C10_Witness ==
  \E c, d \in Calls :
    /\ c # d
    /\ sawNil[c] /\ ~sawNil[d]
    /\ used[c] # 0 /\ used[d] # 0
    /\ builds = 1

\* ====================================================== explicit cache key
\* endpoints of one URL built with Lock(true) and Cache(1, "fixed-key"),
\* differing in the body or in a header
KeyedEndpoints ==
  { e \in [method : {"POST"}, path : {"/p"},
           headers : {NoHeaders, ("Accept" :> <<"a">>)},
           body : ReqBodies, key : {"fixed-key"}, cache : {1},
           limiter : {FALSE}, lock : {TRUE}] :
      e.headers = NoHeaders \/ e.body = "b1" }

InitKey ==
  Setup({a \in APIs : a.URL /\ a.Cache = 0 /\ ~a.limiter /\ ~a.Authorization
                        /\ ~a.Errors},
        KeyedEndpoints, {FALSE}, {FALSE})

SpecKey == InitKey /\ [][NextRace]_vars

SameTarget(c, d) ==
  ep[c].method = ep[d].method /\ URLOf(ep[c]) = URLOf(ep[d])

SameOverride(c, d) == ep[c].key # "" /\ ep[d].key = ep[c].key

\* calls of one method, URL and override work under one key, and what a call
\* got from the cache is the cached copy of a response stored under its key
KeyShared ==
  \A c, d \in Calls :
    /\ SameOverride(c, d) /\ SameTarget(c, d) => key(c) = key(d)
    /\ hit[d] =>
         \E x \in Calls :
           /\ resp[x] # <<>>
           /\ key(x) = key(d)
           /\ b[d] = <<CachedCopy(resp[x][1].body)>>

\* a lookup made while the Store holds the call's key is a hit
ServedFromCache ==
  \A d \in Calls :
    ( /\ pc[d] = "lookup" /\ pc'[d] \notin {"lookup", "fatal"}
      /\ key(d) \in DOMAIN Cache ) => hit'[d]

\* C11: two execute calls on endpoints configured with Cache(d, "fixed-key"),
\* of the same method and URL but different bodies or headers, compute the
\* same cache and lock key, and the second is served the cached response of
\* the first: the override bypasses the hashing of headers and body.
C11_OverrideSharesKey == []KeyShared /\ [][ServedFromCache]_vars

\* a call was served the response another call with another body fetched
\* under the same override
C11_Witness ==
  \E c, d \in Calls :
    /\ SameOverride(c, d)
    /\ ep[c].body # ep[d].body
    /\ resp[c] # <<>> /\ resp[d] = <<>>
    /\ hit[d] /\ pc[d] = "done"
    /\ b[d] = <<CachedCopy(resp[c][1].body)>>

\* ============================================================ Endpoint.hash
\* the variables of the calls of execute
settings == <<api, ep, locker, testMode, ctxDone, cred, expires, jobs,
              pubsub>>
running == <<limiters, mu, client, builds, authCalls, holds, pc, hit, sawNil,
             b, tok, used, resp, waited, out>>

Reqs == 1..2

\* header values: a byte, and a byte followed by a line feed
HeaderValues == { <<"a">>, <<"a", "\n">> }

\* the header maps Header can build over two names
HeaderMaps ==
  UNION { [N -> HeaderValues] : N \in SUBSET {"Accept", "Authorization"} }

\* the endpoint values whose requests are fingerprinted
HashedEndpoints ==
  [method : {"GET", "POST"}, path : {"/p"}, headers : HeaderMaps,
   body : ReqBodies, key : {"", "fixed-key"}, cache : {1},
   limiter : {FALSE}, lock : {FALSE}]

\* a request and the order the range over its headers takes
HashInputs ==
  UNION { [e : {e}, order : Enumerations(HeadersOf(e))] : e \in HashedEndpoints }

\* key, err := e.hash(req)
Fingerprint(i) ==
  /\ fps[i] = <<>>
  /\ fps' = [fps EXCEPT ![i] = <<hash(reqs[i].e, reqs[i].order)>>]
  /\ UNCHANGED <<settings, running, Cache, deadline, now, reqs, op, vals,
                 maps, domains>>

\* the calls of execute at rest
AtRest ==
  SetupOf({ZeroAPI},
          {[c \in Calls |-> CHOOSE e \in Endpoints : TRUE]}, {FALSE}, {FALSE})

InitHash ==
  /\ AtRest
  /\ reqs \in [Reqs -> HashInputs]
  /\ fps = [i \in Reqs |-> <<>>]
  /\ NoOp
  /\ NoValues
  /\ NoTasks

NextHash == \E i \in Reqs : Fingerprint(i)

SpecHash == InitHash /\ [][NextHash]_vars

Hashed(i) == fps[i] # <<>>

\* C12: with an explicit cache-key override set via Cache(d, name), the key
\* used for the cache lookup, the cache write and the lock is exactly the
\* override string, verbatim, independent of the request's method and URL.
C12_KeyIsOverride ==
  \A i, j \in Reqs :
    Hashed(i) /\ reqs[i].e.key # "" =>
      /\ fps[i] = <<reqs[i].e.key>>
      /\ (Hashed(j) /\ reqs[j].e.key = reqs[i].e.key => fps[j] = fps[i])

\* C13: requests identical in method, URL, header set and body have the same
\* fingerprint whatever the order in which their headers are enumerated.
C13_OrderIndependent ==
  \A i, j \in Reqs :
    Hashed(i) /\ Hashed(j) /\ reqs[i].e = reqs[j].e => fps[i] = fps[j]

\* one request fingerprinted twice, its three headers enumerated in two orders
C13_Witness ==
  /\ Hashed(1) /\ Hashed(2)
  /\ reqs[1].e = reqs[2].e
  /\ reqs[1].e.key = ""
  /\ Len(reqs[1].order) = 3
  /\ reqs[1].order # reqs[2].order
  /\ fps[1] = fps[2]

\* the number of positions at which two byte strings of one length differ
Differences(s, u) == Cardinality({ n \in DOMAIN s : s[n] # u[n] })

\* the header names whose values differ
DifferingValues(g, h) == { n \in DOMAIN g : g[n] # h[n] }

SameNames(d, e) ==
  /\ d.key = "" /\ e.key = ""
  /\ d.method = e.method /\ URLOf(d) = URLOf(e)
  /\ DOMAIN HeadersOf(d) = DOMAIN HeadersOf(e)

OneValueDiffers(d, e) ==
  /\ SameNames(d, e)
  /\ Cardinality(DifferingValues(HeadersOf(d), HeadersOf(e))) = 1
  /\ reader(d) = reader(e)

OneByteDiffers(d, e) ==
  /\ SameNames(d, e)
  /\ HeadersOf(d) = HeadersOf(e)
  /\ Len(reader(d)) = Len(reader(e))
  /\ Differences(reader(d), reader(e)) = 1

\* C14: without an explicit key, two requests of one method, URL and header
\* names that differ in exactly one header value or in exactly one body byte
\* have different pre-images and different fingerprints.
C14_OneDifference ==
  \A i, j \in Reqs :
    /\ Hashed(i) /\ Hashed(j)
    /\ OneValueDiffers(reqs[i].e, reqs[j].e) \/ OneByteDiffers(reqs[i].e, reqs[j].e)
    => /\ Preimage(reqs[i].e, reqs[i].order) # Preimage(reqs[j].e, reqs[j].order)
       /\ fps[i] # fps[j]

\* two fingerprinted requests, one with a header value the other's value
\* followed by a line feed
C14_Witness ==
  /\ Hashed(1) /\ Hashed(2)
  /\ OneValueDiffers(reqs[1].e, reqs[2].e)
  /\ DOMAIN reqs[1].e.headers = {"Accept", "Authorization"}
  /\ fps[1] # fps[2]

\* ================================================================ the Store
\* the keys, values and TTLs the callers of the Store pass
StoreKeys == { <<"k">> }
StoreValues == { <<>>, <<"1">>, <<BadByte>> }
TTLs == 0..1

\* what the caller of Cache.Set asked for: the entry lives until now + ttl,
\* or without limit when ttl is 0
expirySet(k, ttl) ==
  IF ttl > 0 THEN deadlineSet(k, ttl)
  ELSE [x \in DOMAIN deadline \ {k} |-> deadline[x]]

\* the variables no call on the Store changes
offStore == <<settings, running, now, reqs, fps, vals, maps, domains>>

\* Cache.Set(ctx, k, v, ttl) on the in-memory Store
StoreSet(k, v, ttl) ==
  /\ Cache' = memorySet(k, v, ttl)
  /\ deadline' = expirySet(k, ttl)
  /\ op' = [name |-> "Cache.Set", k |-> k, v |-> v, t |-> ttl, at |-> now]
  /\ UNCHANGED offStore

\* Cache.Get(ctx, k) on the in-memory Store
StoreGet(k) ==
  /\ op' = [name |-> "Cache.Get", k |-> k, r |-> memoryGet(k), at |-> now]
  /\ UNCHANGED <<offStore, Cache, deadline>>

\* the TTL arguments a caller of Set passes: none, one, or several
TTLArgs == { <<>>, <<0>>, <<1>>, <<0, 1>>, <<1, 1>> }

\* Set passing its first TTL argument only
FirstTTL(ttls) == IF ttls = <<>> THEN 0 ELSE ttls[1]

\* Set: for i := range ttl { d += ttl[i] }
SumTTL(ttls) ==
  LET d[i \in 0..Len(ttls)] == IF i = 0 THEN 0 ELSE d[i - 1] + ttls[i]
  IN d[Len(ttls)]

\* Set(ctx, k, v, ttls...) with T = string: the bytes written
TypedSet(k, v, ttls) ==
  /\ Cache' = memorySet(k, MarshalString(v), SumTTL(ttls))
  /\ deadline' = expirySet(k, SumTTL(ttls))
  /\ op' = [name |-> "Set", k |-> k, v |-> v, t |-> SumTTL(ttls), at |-> now,
            r |-> SetResult(v, "nil"), ttls |-> ttls]
  /\ UNCHANGED offStore

\* the errors a Store registered with UseStore can return
StoreErrors == { "canceled", "failed" }

\* Get(ctx, k, &s) when the Store's Get returns the error err
FailedGet(k, err) ==
  /\ op' = [name |-> "Get, Store failing", k |-> k, at |-> now,
            r |-> GetResult(<<>>, err)]
  /\ UNCHANGED <<offStore, Cache, deadline>>

\* Set(ctx, k, v, ttls...) when the Store's Set returns the error err
FailedSet(k, v, ttls, err) ==
  /\ op' = [name |-> "Set, Store failing", k |-> k, v |-> v,
            t |-> SumTTL(ttls), at |-> now, r |-> SetResult(v, err),
            ttls |-> ttls]
  /\ UNCHANGED <<offStore, Cache, deadline>>

\* memory.Disable: the context it was given
memoryDisable(ctx) == ctx

\* Cache.Get(Cache.Disable(ctx), k): memory.Get looks at no context
DisabledStoreGet(k) ==
  /\ op' = [name |-> "Disable, Cache.Get", k |-> k, at |-> now,
            ctx |-> memoryDisable("ctx"), r |-> memoryGet(k)]
  /\ UNCHANGED <<offStore, Cache, deadline>>

\* Get(Cache.Disable(ctx), k, &s)
DisabledTypedGet(k) ==
  /\ op' = [name |-> "Disable, Get", k |-> k, at |-> now,
            ctx |-> memoryDisable("ctx"), r |-> Get(k)]
  /\ UNCHANGED <<offStore, Cache, deadline>>

\* a.get(Cache.Disable(ctx), k, t), the lookup of execute on an endpoint
\* given that context
DisabledAPIGet(k, t) ==
  /\ op' = [name |-> "Disable, API.get", k |-> k, t |-> t, at |-> now,
            ctx |-> memoryDisable("ctx"), r |-> get(k, t)]
  /\ UNCHANGED <<offStore, Cache, deadline>>

\* Get(ctx, k, &s) with T = *string
TypedGet(k) ==
  /\ op' = [name |-> "Get", k |-> k, r |-> Get(k), at |-> now]
  /\ UNCHANGED <<offStore, Cache, deadline>>

\* a.set(k, v, t)
APISet(k, v, t) ==
  /\ Cache' = set(k, v, t)
  /\ deadline' = setDeadline(k, t)
  /\ op' = [name |-> "API.set", k |-> k, v |-> v, t |-> t, at |-> now,
            r |-> IF setWrites(t) THEN Len(MarshalString(v)) ELSE -1]
  /\ UNCHANGED offStore

\* a.get(ctx, k, t)
APIGet(k, t) ==
  /\ op' = [name |-> "API.get", k |-> k, t |-> t, r |-> get(k, t), at |-> now]
  /\ UNCHANGED <<offStore, Cache, deadline>>

InitStore ==
  /\ SetupOf({a \in APIs : a.URL /\ ~a.limiter /\ ~a.Authorization /\ ~a.Errors},
             {[c \in Calls |-> CHOOSE e \in Endpoints : TRUE]}, {FALSE}, {FALSE})
  /\ NoRequests
  /\ NoOp
  /\ NoValues
  /\ NoTasks

NextStore ==
  \/ \E k \in StoreKeys, v \in StoreValues, ttl \in TTLs : StoreSet(k, v, ttl)
  \/ \E k \in StoreKeys : StoreGet(k)
  \/ \E k \in StoreKeys, v \in StoreValues, ttls \in TTLArgs : TypedSet(k, v, ttls)
  \/ \E k \in StoreKeys, err \in StoreErrors : FailedGet(k, err)
  \/ \E k \in StoreKeys, v \in StoreValues, ttls \in TTLArgs, err \in StoreErrors :
       FailedSet(k, v, ttls, err)
  \/ \E k \in StoreKeys : DisabledStoreGet(k)
  \/ \E k \in StoreKeys : DisabledTypedGet(k)
  \/ \E k \in StoreKeys, ttl \in TTLs : DisabledAPIGet(k, ttl)
  \/ \E k \in StoreKeys : TypedGet(k)
  \/ \E k \in StoreKeys, v \in StoreValues, ttl \in TTLs : APISet(k, v, ttl)
  \/ \E k \in StoreKeys, ttl \in TTLs : APIGet(k, ttl)
  \/ Tick

SpecStore == InitStore /\ [][NextStore]_vars

\* a Get made right after a successful Set of the same key with a TTL > 0
GetAfterSet(setter, getter) ==
  /\ op.name = setter /\ op.t > 0
  /\ op'.name = getter /\ op'.k = op.k

\* C15: after Set(key, v, ttl) with ttl > 0 succeeds, an immediate Get(key)
\* returns exactly v, through the byte Store and through the typed helpers.
C15_RoundTrip ==
  [][ /\ GetAfterSet("Cache.Set", "Cache.Get") => op'.r = <<op.v>>
      /\ GetAfterSet("Set", "Get") /\ op.r > 0 =>
            op'.r.n > 0 /\ op'.r.s = op.v ]_vars

\* the last call was a Get made at or after the time the key's Set asked it
\* to live until
Expired == op.k \in DOMAIN deadline /\ deadline[op.k] <= op.at

\* C16: after a key's TTL has elapsed since its Set, Get(key) reports not
\* found, with the in-memory Store as with any Store.
C16_ExpiredNotFound ==
  /\ op.name = "Cache.Get" /\ Expired => op.r = <<>>
  /\ op.name = "Get" /\ Expired => op.r.n = 0

\* the TTL a call with override t resolves to
Resolved(t) == IF t > 0 THEN t ELSE api.Cache

\* what the helpers return and leave in the Store
HelpersResolve ==
  /\ op.name = "API.get" /\ Resolved(op.t) <= 0 => op.r = <<>>
  /\ op.name = "API.get" /\ Resolved(op.t) > 0 /\ Get(op.k).n > 0 =>
        op.r = <<Get(op.k).s>>
  /\ op.name = "API.set" /\ Resolved(op.t) <= 0 => op.r = -1
  /\ op.name = "API.set" /\ Resolved(op.t) > 0 =>
        /\ op.r > 0
        /\ Cache[op.k] = MarshalString(op.v)
        /\ deadline[op.k] = op.at + Resolved(op.t)

\* a set whose TTL resolves to nothing writes nothing
NoWriteWithoutTTL ==
  op'.name = "API.set" /\ Resolved(op'.t) <= 0 =>
    Cache' = Cache /\ deadline' = deadline

\* C19: the Descriptor's get and set use the per-call TTL when it is > 0 and
\* the Descriptor's default otherwise; with a resolved TTL <= 0, get returns
\* not found whatever the Store holds and set writes nothing.
C19_ResolvedTTL == []HelpersResolve /\ [][NoWriteWithoutTTL]_vars

\* get returned not found for a key the Store holds, no TTL being resolved
C19_Witness ==
  /\ op.name = "API.get"
  /\ Resolved(op.t) <= 0
  /\ Get(op.k).n > 0
  /\ op.r = <<>>

\* =================================================================== errors
\* a Descriptor without origin URL, or one with or without an error mapper;
\* no cache, limiter or Auth Provider
InitErrors ==
  Setup({ZeroAPI} \cup {a \in APIs : a.URL /\ a.Cache = 0 /\ ~a.limiter
                                        /\ ~a.Authorization},
        {e \in Endpoints : ~e.limiter /\ e.cache = 0 /\ e.body = "b1"},
        {FALSE}, {FALSE})

SpecErrors == InitErrors /\ [][NextLock]_vars

\* the byte string s occurs in the byte string v
Contains(v, s) ==
  \E n \in 0..(Len(v) - Len(s)) : SubSeq(v, n + 1, n + Len(s)) = s

\* execute returned for a response with status >= 400
Refused(c) == pc[c] = "done" /\ resp[c] # <<>> /\ resp[c][1].status >= 400

Untouched(c) ==
  /\ holds[c] = <<>>
  /\ ~hit[c] /\ b[c] = <<>>
  /\ waited[c] = {}
  /\ ~sawNil[c] /\ used[c] = 0 /\ resp[c] = <<>>

\* C18: execute on an endpoint whose Descriptor has no origin URL returns
\* the configuration error and a zero result, before any lock acquisition,
\* cache access, limiter wait or network I/O.
C18_NoURL ==
  ~api.URL =>
    /\ Cache = <<>> /\ builds = 0 /\ mu = 0
    /\ \A c \in Calls :
         /\ pc[c] \in {"start", "done"}
         /\ pc[c] = "done" => out[c] = Result("ConfigError", <<>>)
         /\ Untouched(c)

\* every call on the Descriptor without URL returned the configuration error
C18_Witness ==
  /\ ~api.URL
  /\ \A c \in Calls : pc[c] = "done" /\ out[c].kind = "ConfigError"

\* ======================================================== builder methods
\* An Endpoint value holds its scalar fields and references: headers and
\* params index maps (0 is the nil map), domain indexes domains.
MaxValues == 3

\* the variables no builder method changes
offBuild == <<settings, running, Cache, deadline, now, reqs, fps, op>>

NilMap == 0
EmptyMap == [n \in {} |-> <<>>]

\* room for one more value
Room == Len(vals) < MaxValues

\* the indexes values and Descriptors can take
Values == 1..MaxValues
Descriptors == 1..(MaxValues + 1)

\* the value a constructor returns, its maps and Descriptor given
NewValue(h, q, d) ==
  [method |-> "GET", headers |-> h, params |-> q, domain |-> d, body |-> "",
   name |-> "", key |-> <<>>, cache |-> 0, lock |-> FALSE, limiter |-> FALSE,
   context |-> "nil"]

\* APIEndpoint(d, path): fresh maps, the headers a copy of d.Headers
NewAPIEndpoint(d) ==
  /\ d \in DOMAIN domains
  /\ Room
  /\ maps' = maps \o <<EmptyMap, EmptyMap>>
  /\ vals' = Append(vals, NewValue(Len(maps) + 1, Len(maps) + 2, d))
  /\ UNCHANGED <<offBuild, domains>>

\* NewEndpoint(url): a Descriptor of its own, nil headers, the params of
\* the URL's query
NewURLEndpoint ==
  /\ Room
  /\ domains' = Append(domains, [Errors |-> "nil"])
  /\ maps' = Append(maps, EmptyMap)
  /\ vals' = Append(vals, NewValue(NilMap, Len(maps) + 1, Len(domains) + 1))
  /\ UNCHANGED offBuild

\* a method with a value receiver that assigns one field and returns e
Assign(i, x) ==
  /\ i \in DOMAIN vals
  /\ Room
  /\ vals' = Append(vals, x)
  /\ UNCHANGED <<offBuild, maps, domains>>

Name(i, n) == Assign(i, [vals[i] EXCEPT !.name = n])
Method(i, n) == Assign(i, [vals[i] EXCEPT !.method = n])
Limit(i) == Assign(i, [vals[i] EXCEPT !.limiter = TRUE])
Body(i, in) == Assign(i, [vals[i] EXCEPT !.body = in])
Context(i, cx) == Assign(i, [vals[i] EXCEPT !.context = cx])
CacheFor(i, d, name) ==
  Assign(i, [vals[i] EXCEPT !.key = @ \o name, !.cache = d])
Lock(i, enable) == Assign(i, [vals[i] EXCEPT !.lock = enable])

\* the map m with name n set to v
Put(m, n, v) == [x \in DOMAIN m \cup {n} |-> IF x = n THEN v ELSE m[x]]

\* Endpoint.Header: a new map when e.headers is nil, else e.headers[n] = v
\* on the map the receiver's copy still refers to
Header(i, n, v) ==
  /\ i \in DOMAIN vals
  /\ Room
  /\ IF vals[i].headers = NilMap
     THEN /\ maps' = Append(maps, Put(EmptyMap, n, v))
          /\ vals' = Append(vals, [vals[i] EXCEPT !.headers = Len(maps) + 1])
     ELSE /\ maps' = [maps EXCEPT ![vals[i].headers] = Put(@, n, v)]
          /\ vals' = Append(vals, vals[i])
  /\ UNCHANGED <<offBuild, domains>>

\* Endpoint.Query: e.params.Set(name, value)
Query(i, n, v) ==
  /\ i \in DOMAIN vals
  /\ Room
  /\ maps' = [maps EXCEPT ![vals[i].params] = Put(@, n, v)]
  /\ vals' = Append(vals, vals[i])
  /\ UNCHANGED <<offBuild, domains>>

\* Endpoint.Errors: e.domain.Errors = fn
Errors(i, fn) ==
  /\ i \in DOMAIN vals
  /\ Room
  /\ domains' = [domains EXCEPT ![vals[i].domain].Errors = fn]
  /\ vals' = Append(vals, vals[i])
  /\ UNCHANGED <<offBuild, maps>>

\* one Descriptor, built by APIFromURL, and no Endpoint value yet
InitBuild ==
  /\ AtRest
  /\ NoTasks
  /\ NoRequests
  /\ NoOp
  /\ vals = <<>>
  /\ maps = <<>>
  /\ domains = <<[Errors |-> "nil"]>>

\* the builder methods called on value i
Build(i) ==
  \/ Name(i, "n")
  \/ Method(i, "POST")
  \/ \E v \in HeaderValues : Header(i, "Accept", v)
  \/ \E v \in HeaderValues : Query(i, "page", v)
  \/ Limit(i)
  \/ Body(i, "b1")
  \/ Errors(i, "fn")
  \/ Context(i, "cx")
  \/ CacheFor(i, 1, <<"fixed-key">>)
  \/ Lock(i, TRUE)

NextBuild ==
  \/ \E d \in Descriptors : NewAPIEndpoint(d)
  \/ NewURLEndpoint
  \/ \E i \in Values : Build(i)

SpecBuild == InitBuild /\ [][NextBuild]_vars

\* the configuration seen through value i: its fields, its headers and
\* query parameters, the error mapper of its Descriptor
Observed(i) ==
  [e |-> vals[i],
   headers |-> IF vals[i].headers = NilMap THEN EmptyMap ELSE maps[vals[i].headers],
   params |-> maps[vals[i].params],
   Errors |-> domains[vals[i].domain].Errors]

\* C20: for every builder method m and endpoint value e, calling e.m(...)
\* leaves the configuration observable through e and through the shared
\* Descriptor unchanged: headers, query parameters and error mapper seen by
\* e or by other endpoints of the Descriptor are not mutated.
C20_ValueSemantics ==
  [][\A i \in DOMAIN vals : Observed(i)' = Observed(i)]_vars


\* ========================================================= decode failures
\* call c fetched a response with status < 400 that did not decode, and
\* wrote it to the cache on the way
FailedDecode(c) ==
  /\ pc[c] = "done"
  /\ out[c].kind = "DecodeError"
  /\ resp[c] # <<>>
  /\ setWrites(ep[c].cache)

\* the entry a call wrote is there after its decode failure, and a call
\* served from the cache made no network call
EntryKept ==
  \A c \in Calls :
    /\ FailedDecode(c) => key(c) \in DOMAIN Cache
    /\ hit[c] => used[c] = 0 /\ resp[c] = <<>>

\* the lookup of an identical call made after the decode failure is a hit
ServedAfterFailure ==
  \A c, d \in Calls :
    ( /\ FailedDecode(c) /\ key(d) = key(c) /\ ttlOf(ep[d].cache) > 0
      /\ pc[d] = "lookup" /\ pc'[d] \notin {"lookup", "fatal"} )
      => hit'[d] /\ pc'[d] = "decode"

\* C21: a decode failure of a successful response is returned to the caller
\* but leaves the cache entry written for that fingerprint in place, so a
\* later identical call is served from the cache without a network call.
C21_DecodeFailureKeepsEntry == []EntryKept /\ [][ServedAfterFailure]_vars

\* a call returned a decode failure of its response, and an identical call
\* that looked up after it was served from the cache and sent nothing
C21_Witness ==
  \E c, d \in Calls :
    /\ c # d /\ FailedDecode(c) /\ key(d) = key(c)
    /\ pc[d] = "done" /\ hit[d] /\ used[d] = 0 /\ resp[d] = <<>>

\* ================================================================ attempts
\* the failures a response or its absence ends execute with
AttemptFailures == {"TransportError", "UpstreamError", "DecodeError"}

\* a call got to the network step on a miss iff it handed its request to
\* the client; a call served from the cache handed over nothing
OneAttempt ==
  \A c \in Calls :
    /\ pc[c] = "inflight" => used[c] # 0
    /\ resp[c] # <<>> => used[c] # 0
    /\ out[c].kind \in AttemptFailures /\ ~hit[c] => used[c] # 0
    /\ hit[c] => used[c] = 0 /\ resp[c] = <<>>

\* the request is handed over in the step from the network step only, once;
\* after it execute goes on to its return and never back
NoWayBack ==
  \A c \in Calls :
    /\ used'[c] # used[c] =>
         pc[c] = "dispatch" /\ used[c] = 0 /\ pc'[c] = "inflight"
    /\ resp'[c] # resp[c] => pc[c] = "inflight" /\ resp[c] = <<>>
    /\ pc[c] = "inflight" => pc'[c] \in {"inflight", "decode", "done", "fatal"}
    /\ pc[c] = "decode" => pc'[c] \in {"decode", "done", "fatal"}
    /\ pc[c] = "done" => pc'[c] \in {"done", "fatal"} /\ out'[c] = out[c]

\* C22: no automatic retries exist: on any execute invocation the request is
\* dispatched to the transport at most once, exactly once when the cache
\* misses and the pipeline reaches the network step, and no transport error,
\* upstream error or decode failure triggers a second attempt.
C22_NoRetry == []OneAttempt /\ [][NoWayBack]_vars

\* the calls are done, each after one attempt: one with a transport error,
\* one with an upstream error or a decode failure
C22_Witness ==
  \E c, d \in Calls :
    /\ pc[c] = "done" /\ out[c].kind = "TransportError" /\ used[c] # 0
    /\ pc[d] = "done" /\ out[d].kind \in {"UpstreamError", "DecodeError"}
    /\ used[d] # 0 /\ resp[d] # <<>>

\* ============================================================== no Locker
\* without a registered Locker, or for an empty name, the handle is a mutex
\* of the call's own
OwnMutex ==
  \A c \in Calls :
    /\ NewLocker(c, <<>>) = <<"mutex", c>>
    /\ ~locker => NewLocker(c, key(c)) = <<"mutex", c>>

\* without a registered Locker no call waits at the lock, and the handles
\* held are all different
NeverBlocks ==
  ~locker =>
    \A c \in Calls :
      /\ pc[c] = "lock" => ENABLED Acquire(c)
      /\ \A d \in Calls \ {c} :
           holds[c] # <<>> /\ holds[d] # <<>> => holds[c] # holds[d]

AtLimiter(c, l) == pc[c] = "wait" /\ waitLimiter(c) = <<l>>

\* two calls are in limiter.Check on one limiter, one of them writing the
\* bucket map: Check assigns l.m[key] only when the key is in the map
LimiterRace ==
  \E c, d \in Calls, l \in {"domain", "endpoint"} :
    /\ c # d /\ AtLimiter(c, l) /\ AtLimiter(d, l)
    /\ waitKey(l) \in DOMAIN limiters[l]

\* C25 (as claimed): under concurrent execute calls the in-memory Store's key
\* table and the limiter's per-key bucket map are never accessed by one call
\* while another call is writing them.
C25_NoRace == ~StoreRace /\ ~LimiterRace

\* ================================================================ API.auth
\* Descriptors with an Auth Provider and nothing else, no time passing: the
\* calls meet at the token
InitAuth ==
  Setup({a \in APIs : a.URL /\ ~a.limiter /\ a.Authorization /\ ~a.Errors},
        {e \in Endpoints : ~e.limiter /\ e.body = "b1"}, {FALSE}, {FALSE})

SpecAuth == InitAuth /\ [][Next]_vars

\* a call at API.auth goes on while another call is with the Auth Provider,
\* and no call asks the Auth Provider twice
NotSerialized ==
  /\ \A c, d \in Calls :
       c # d /\ pc[c] = "provider" /\ pc[d] = "auth" => ENABLED Auth(d)
  /\ authCalls <= NCalls

\* a request handed to the transport carries a token no blank
TokenInjected ==
  \A c \in Calls :
    pc[c] \in {"dispatch", "inflight"} \/ used[c] # 0
      => tok[c] # <<>> /\ TrimSpace(tok[c]) = tok[c]

\* C23: token refresh for a host is not serialized: when no valid token is
\* cached, two concurrent execute calls on the same Descriptor can each invoke
\* the Auth Provider, and both calls still complete with a token injected.
C23_RefreshNotSerialized == NotSerialized /\ TokenInjected

\* the Auth Provider was asked twice, by two calls that both sent their
\* request with the token each of them got, and both are done
C23_Witness ==
  /\ authCalls >= 2
  /\ \E c, d \in Calls :
       /\ c # d /\ tok[c] # tok[d]
       /\ \A x \in {c, d} :
            pc[x] = "done" /\ out[x].kind = "ok" /\ used[x] # 0 /\ tok[x] # <<>>

\* the tokens that are no token
Blank == { <<>>, <<" ">> }

\* a call that returned the error of API.auth sent nothing and has no token,
\* and the token the Store holds is no blank
AuthFailed ==
  /\ \A c \in Calls :
       out[c].kind = "AuthError" =>
         /\ pc[c] \in {"done", "fatal"}
         /\ used[c] = 0 /\ resp[c] = <<>> /\ tok[c] = <<>> /\ b[c] = <<>>
  /\ TokenKey \in DOMAIN Cache => Get(TokenKey).s \notin Blank

\* the step in which API.auth fails writes nothing to the Store
AuthFailureWritesNothing ==
  \A c \in Calls :
    out'[c].kind = "AuthError" /\ out[c].kind # "AuthError"
      => pc[c] = "provider" /\ UNCHANGED <<Cache, deadline, used, resp>>

\* C27: if the Auth Provider returns an error or an empty / whitespace-only
\* token, execute returns an error without dispatching the request to the
\* transport, without storing a token and without writing the response cache.
C27_AuthFailure == []AuthFailed /\ [][AuthFailureWritesNothing]_vars

\* a call returned the error of API.auth after the Auth Provider was asked:
\* nothing was sent and the Store is empty, with a TTL for the response set
C27_Witness ==
  \E c \in Calls :
    /\ pc[c] = "done" /\ out[c].kind = "AuthError"
    /\ authCalls >= 1 /\ used[c] = 0
    /\ setWrites(ep[c].cache)
    /\ Cache = [k \in {} |-> <<>>]

\* =========================================================== Endpoint.wait
\* Descriptors and endpoints with and without a limiter, cached or not
InitLimit ==
  Setup({a \in APIs : a.URL /\ a.Cache = 0 /\ ~a.Authorization /\ ~a.Errors},
        {e \in Endpoints : e.body = "b1"}, {FALSE}, {FALSE})

SpecLimit == InitLimit /\ [][NextRace]_vars

\* call c has not got to e.wait
BeforeWait(c) ==
  pc[c] \in {"start", "lock", "lookup", "wait"} \/ out[c].kind = "ConfigError"

\* call c went through e.wait
AfterWait(c) == ~BeforeWait(c) /\ ~hit[c] /\ pc[c] # "fatal"

\* the limiters a call has consulted: none before e.wait and none on a hit;
\* after e.wait the endpoint's when it has one, else the Descriptor's when it
\* has one, else none
OneLimiter ==
  \A c \in Calls :
    /\ BeforeWait(c) \/ hit[c] => waited[c] = {}
    /\ AfterWait(c) /\ ep[c].limiter => waited[c] = {"endpoint"}
    /\ AfterWait(c) /\ ~ep[c].limiter /\ api.limiter => waited[c] = {"domain"}
    /\ AfterWait(c) /\ ~ep[c].limiter /\ ~api.limiter => waited[c] = {}
    /\ used[c] # 0 => AfterWait(c) \/ pc[c] = "fatal"

\* C26: on a cache miss execute consults exactly one limiter before the
\* network call: the endpoint-level limiter when one is set (the
\* Descriptor-level limiter is then not consulted), otherwise the
\* Descriptor-level limiter when one is set, otherwise none.
C26_OneLimiter == OneLimiter

\* endpoint and Descriptor both have a limiter: a call missed the cache and
\* consulted the endpoint's only; another call has the Descriptor's limiter
\* only and consulted that
C26_Witness ==
  /\ api.limiter
  /\ \E c, d \in Calls :
       /\ ep[c].limiter /\ AfterWait(c) /\ waited[c] = {"endpoint"}
       /\ ~ep[d].limiter /\ AfterWait(d) /\ waited[d] = {"domain"}

\* ======================================================= the typed helpers
\* the sum of the TTL arguments
Total(ttls) ==
  IF ttls = <<>> THEN 0
  ELSE IF Len(ttls) = 1 THEN ttls[1]
  ELSE ttls[1] + ttls[2]

\* what the last call of Get returned: 0 for no key and for no bytes, -1 for
\* bytes that do not decode and for a failing Store, else the number of bytes
\* stored and the string they decode to
GetTriState ==
  /\ op.name = "Get" =>
       LET r == memoryGet(op.k) IN
       /\ r = <<>> => op.r.n = 0
       /\ r # <<>> /\ Len(r[1]) = 0 => op.r.n = 0
       /\ r # <<>> /\ Len(r[1]) > 0 /\ ~IsJSONString(r[1]) => op.r.n = -1
       /\ r # <<>> /\ Len(r[1]) > 0 /\ IsJSONString(r[1]) =>
            op.r.n = Len(r[1]) /\ op.r.n > 0
  /\ op.name = "Get, Store failing" => op.r.n = -1

\* what the last call of Set returned and passed on: the number of bytes it
\* wrote, with the sum of its TTL arguments as the TTL, or -1 for a failing
\* Store
SetResultAndTTL ==
  /\ op.name = "Set" =>
       /\ op.k \in DOMAIN Cache
       /\ op.r = Len(Cache[op.k]) /\ op.r > 0
       /\ op.t = Total(op.ttls)
       /\ op.t > 0 => op.k \in DOMAIN deadline /\ deadline[op.k] = op.at + op.t
  /\ op.name = "Set, Store failing" => op.r = -1 /\ op.t = Total(op.ttls)

\* C29: the typed Get helper returns 0 when the key is absent, -1 when the
\* Store read or the decode fails, and the number of stored bytes (> 0) on
\* success; the typed Set helper returns the number of bytes written or -1 on
\* failure, passing the sum of all TTL arguments to the Store; neither raises
\* on an ordinary miss.
C29_TriState == GetTriState /\ SetResultAndTTL

\* Set was called with two TTL arguments of 1 and wrote its bytes to live
\* for 2
C29_Witness ==
  /\ op.name = "Set" /\ op.ttls = <<1, 1>> /\ op.r > 0
  /\ deadline[op.k] = op.at + 2

\* ================================================================= Disable
\* C30 (as claimed): a read issued with the context returned by
\* Store.Disable(ctx) is treated as cache-disabled: Get with that context
\* reports not found even when the key is stored, and execute with that
\* context does not serve a cached response.
C30_DisabledNotFound ==
  /\ op.name \in {"Disable, Cache.Get", "Disable, API.get"} => op.r = <<>>
  /\ op.name = "Disable, Get" => op.r.n = 0

\* ============================================================== APIFromURL
\* the connection strings given to APIFromURL, as url.Parse splits them: the
\* scheme, the labels of the host, the username in parts, and the values of
\* the query options Cache, MaxRequestsPerSecond and Name, <<>> when absent
Schemes == { "", "https", "tcp", "scheme" }
Hosts == { <<>>, <<"onet", "pl">>, <<"api", "test", "com">>, <<"localhost">>,
           <<"host">> }
Users == { <<>>, <<"user">>, <<"bearer">>, <<"x-", "key">> }
Durations == { <<"2", "4", "h">>, <<"9", "0", "s">>, <<"1", "m">>, <<"0">>,
               <<"2", "4">>, <<"h">> }
Rates == { <<"3", "2", ".", "2">>, <<"5">>, <<"0", ".", "5">>, <<"x">> }
Names == { <<"Shop">> }
Option(S) == { <<>> } \cup { <<s>> : s \in S }

URLs == [scheme : Schemes, host : Hosts, user : Users, cache : Option(Durations),
         rps : Option(Rates), name : Option(Names)]

Digit == ("0" :> 0) @@ ("1" :> 1) @@ ("2" :> 2) @@ ("3" :> 3) @@ ("4" :> 4)
           @@ ("5" :> 5) @@ ("6" :> 6) @@ ("7" :> 7) @@ ("8" :> 8) @@ ("9" :> 9)

IsDigits(s) == \A i \in 1..Len(s) : s[i] \in DOMAIN Digit

\* the number a run of decimal digits stands for
Decimal(s) ==
  LET n[i \in 0..Len(s)] == IF i = 0 THEN 0 ELSE 10 * n[i - 1] + Digit[s[i]]
  IN n[Len(s)]

\* the seconds in the unit of a duration
Unit == ("h" :> 3600) @@ ("m" :> 60) @@ ("s" :> 1)

\* time.ParseDuration reading the digits and dropping the unit
ParseDurationNoUnit(s) ==
  IF s = <<"0">> THEN [ok |-> TRUE, d |-> 0]
  ELSE IF Len(s) < 2 \/ s[Len(s)] \notin DOMAIN Unit
          \/ ~IsDigits(SubSeq(s, 1, Len(s) - 1))
  THEN [ok |-> FALSE, d |-> 0]
  ELSE [ok |-> TRUE, d |-> Decimal(SubSeq(s, 1, Len(s) - 1))]

\* time.ParseDuration on "0" and on digits followed by one unit, in seconds:
\* a number without unit and a unit without number are errors
ParseDuration(s) ==
  IF s = <<"0">> THEN [ok |-> TRUE, d |-> 0]
  ELSE IF Len(s) < 2 \/ s[Len(s)] \notin DOMAIN Unit
          \/ ~IsDigits(SubSeq(s, 1, Len(s) - 1))
  THEN [ok |-> FALSE, d |-> 0]
  ELSE [ok |-> TRUE, d |-> Decimal(SubSeq(s, 1, Len(s) - 1)) * Unit[s[Len(s)]]]

\* strconv.ParseFloat on digits with at most one digit after the point, in
\* tenths
ParseFloat(s) ==
  IF s # <<>> /\ IsDigits(s) THEN [ok |-> TRUE, f |-> 10 * Decimal(s)]
  ELSE IF Len(s) >= 3 /\ s[Len(s) - 1] = "." /\ s[Len(s)] \in DOMAIN Digit
          /\ IsDigits(SubSeq(s, 1, Len(s) - 2))
  THEN [ok |-> TRUE, f |-> 10 * Decimal(SubSeq(s, 1, Len(s) - 2)) + Digit[s[Len(s)]]]
  ELSE [ok |-> FALSE, f |-> 0]

\* URL.Format(part) for the parts "scheme" and "host": the replacer puts the
\* URL's own scheme or hostname in the place of the word
Format(u, part) == IF part = "scheme" THEN <<u.scheme>> ELSE u.host

\* URL.HasEmpty: the parts whose Format is empty or the name of the part
HasEmpty(u, parts) ==
  { p \in parts : Format(u, p) = <<p>> \/ Format(u, p) \in { <<>>, <<"">> } }

\* ParseURL(url, "scheme", "host")
ParseURL(u) == [ok |-> HasEmpty(u, {"scheme", "host"}) = {}, u |-> u]

\* NewLimiter(rps): &limiter{rps: rps, limiters: make(map[string]*rate.Limiter)}
NewLimiter(rps) == [rps |-> rps, limiters |-> [k \in {} |-> 0]]

\* the bucket limiter.Check makes for a key: rate.NewLimiter(rate.Limit(l.rps), 1)
NewRateLimiter(l) == [limit |-> l.rps, burst |-> 1]

\* cases.Title(language.English).String on a label of the host
Title(s) ==
  CASE s = "onet" -> "Onet"
    [] s = "test" -> "Test"
    [] s = "localhost" -> "Localhost"
    [] s = "host" -> "Host"
    [] OTHER -> s

\* the Name of a Descriptor without the Name option: the label before the
\* last of the hostname, or its only label
HostName(h) == IF Len(h) = 1 THEN Title(h[1]) ELSE Title(h[Len(h) - 1])

\* the headers the username asks for: a bearer token, or a header of the
\* username's own name, with the password as value
UserHeaders(user) ==
  IF user = <<"bearer">> THEN [n \in {"Authorization"} |-> "Bearer password"]
  ELSE IF user # <<>> /\ user[1] = "x-" THEN [n \in {user} |-> "password"]
  ELSE [n \in {} |-> ""]

\* APIFromURL: the error, or the Descriptor
APIFromURL(u) ==
  LET d == IF u.cache = <<>> THEN [ok |-> TRUE, d |-> 0]
           ELSE ParseDuration(u.cache[1])
      f == IF u.rps = <<>> THEN [ok |-> TRUE, f |-> 0]
           ELSE ParseFloat(u.rps[1])
  IN IF ~ParseURL(u).ok \/ ~d.ok \/ ~f.ok
     THEN [err |-> TRUE, api |-> <<>>]
     ELSE [err |-> FALSE,
           api |-> << [URL |-> [scheme |-> u.scheme, host |-> u.host],
                       Cache |-> d.d,
                       MaxRequestsPerSecond |-> f.f,
                       limiter |-> IF u.rps = <<>> THEN <<>>
                                   ELSE <<NewLimiter(f.f)>>,
                       Headers |-> UserHeaders(u.user),
                       Name |-> IF u.name # <<>> /\ u.name[1] # <<>>
                                THEN u.name[1]
                                ELSE <<HostName(u.host)>>] >>]

\* the variables a call of APIFromURL leaves alone
offURL == <<settings, running, Cache, deadline, now, reqs, fps, vals, maps,
            domains>>

\* d, err := APIFromURL(url) on the connection string the process was given
FromURL ==
  /\ op.name = "url"
  /\ op' = [name |-> "APIFromURL", url |-> op.url, r |-> APIFromURL(op.url)]
  /\ UNCHANGED offURL

\* the process starts with a connection string, in its environment
InitURL ==
  /\ AtRest
  /\ NoTasks
  /\ NoRequests
  /\ NoValues
  /\ op \in { [name |-> "url", url |-> u] : u \in URLs }

NextURL == FromURL

SpecURL == InitURL /\ [][NextURL]_vars

\* the durations and rates of the connection strings that are one: their
\* seconds, their tenths
Seconds ==
  (<<"2", "4", "h">> :> 86400) @@ (<<"9", "0", "s">> :> 90)
    @@ (<<"1", "m">> :> 60) @@ (<<"0">> :> 0)
Tenths ==
  (<<"3", "2", ".", "2">> :> 322) @@ (<<"5">> :> 50) @@ (<<"0", ".", "5">> :> 5)

\* the connection string has a scheme and a host, and options that parse
WellFormed(u) ==
  /\ u.scheme \notin {"", "scheme"} /\ u.host \notin { <<>>, <<"host">> }
  /\ u.cache # <<>> => u.cache[1] \in DOMAIN Seconds
  /\ u.rps # <<>> => u.rps[1] \in DOMAIN Tenths

Rank ==
  ("start" :> 0) @@ ("lock" :> 1) @@ ("lookup" :> 2) @@ ("wait" :> 3)
    @@ ("run" :> 4) @@ ("build" :> 5) @@ ("auth" :> 6) @@ ("provider" :> 7)
    @@ ("dispatch" :> 8) @@ ("inflight" :> 9) @@ ("decode" :> 10)
    @@ ("done" :> 11)

\* a call with locking enabled holds its lock from the cache lookup to the
\* decode, and at no other step
HeldThroughout ==
  \A c \in Calls :
    ep[c].lock /\ pc[c] # "fatal" =>
      (holds[c] # <<>> <=> Rank[pc[c]] \in 2..10)

\* the steps of a call go forward only; the lock is taken in the step from the
\* lock to the lookup and given back in the step to the return; the cache is
\* looked up and written, and the request sent, with the lock held
InOrder ==
  \A c \in Calls :
    ep[c].lock /\ pc'[c] # "fatal" =>
      /\ pc'[c] # pc[c] => Rank[pc'[c]] > Rank[pc[c]]
      /\ holds[c] = <<>> /\ holds'[c] # <<>> =>
           pc[c] = "lock" /\ pc'[c] = "lookup"
      /\ holds[c] # <<>> /\ holds'[c] = <<>> => pc'[c] = "done"
      /\ b'[c] # b[c] \/ hit'[c] # hit[c] => holds[c] # <<>>
      /\ used'[c] # used[c] \/ resp'[c] # resp[c] => holds[c] # <<>>
      /\ pc[c] = "inflight" /\ pc'[c] = "decode" =>
           /\ holds[c] # <<>> /\ holds'[c] # <<>>
           /\ setWrites(ep[c].cache) => key(c) \in DOMAIN Cache'

\* C31: in every execute call with locking enabled the steps occur in this
\* order: fingerprint computation, lock acquisition, cache lookup, limiter
\* wait, auth resolution, network call, cache write, decode, lock release;
\* the lock is acquired before the cache lookup and released only after the
\* cache write.
C31_StepOrder == []HeldThroughout /\ [][InOrder]_vars

\* a call with locking enabled went through every step: it missed the cache,
\* sent its request, wrote the response to the cache, decoded it and gave
\* the lock back
C31_Witness ==
  \E c \in Calls :
    /\ ep[c].lock /\ pc[c] = "done" /\ out[c].kind = "ok"
    /\ ~hit[c] /\ used[c] # 0 /\ resp[c] # <<>>
    /\ key(c) \in DOMAIN Cache
    /\ holds[c] = <<>>

\* ========================================================= upstream errors
\* the results of execute that are an error
Failures ==
  { "ConfigError", "Canceled", "panic", "AuthError", "TransportError",
    "UpstreamError", "MappedError", "DecodeError" }

\* C32 (as claimed): every network response with status >= 400 makes execute
\* return a non-nil error and the zero result, whether or not an error mapper
\* is configured and whatever the mapper returns (including nil).
C32_AlwaysAnError ==
  \A c \in Calls : Refused(c) => out[c].kind \in Failures

\* ------------------------------------------------------------------ tenants
\* the userinfo of two Descriptors for the one host: OAuth clients, or a
\* username that is neither "bearer" nor an "x-" header name, which
\* APIFromURL turns into no header
Creds == { <<"clientA">>, <<"clientB">> }

\* Each call goes through a Descriptor with an Auth Provider for the one
\* host, the Descriptors alike but for their userinfo, the Store shared
InitTenants ==
  /\ SetupWith({a \in APIs : a.URL /\ ~a.limiter /\ a.Authorization /\ ~a.Errors},
               { f \in [Calls -> {e \in Endpoints : ~e.limiter /\ e.body = "b1"}] :
                     Derived(f) },
               {FALSE}, {FALSE}, Creds)
  /\ AnyLifetime
  /\ NoRequests
  /\ NoOp
  /\ NoValues
  /\ NoTasks

SpecTenants == InitTenants /\ [][Next]_vars

\* the same host, method, path, query, headers and body
SameRequest(c, d) == ep[c] = ep[d]

\* call d was served from the cache the response call c fetched
ServedResponseOf(c, d) ==
  /\ resp[c] # <<>>
  /\ hit[d] /\ used[d] = 0 /\ pc[d] = "done" /\ out[d].kind = "ok"
  /\ b[d] = <<resp[c][1].body>>

\* C33: a response cached by an execute call made through one Descriptor's
\* credentials is never returned to an execute call made through a Descriptor
\* with different credentials for the same host, method, path, query, headers
\* and body: the two calls never share a cache key.
C33_TenantsApart ==
  \A c, d \in Calls :
    cred[c] # cred[d] /\ SameRequest(c, d)
      => ~(key(c) = key(d) /\ ServedResponseOf(c, d))

\* the credentials a token was issued to
IssuedTo(t) == SubSeq(t, 2, Len(t))

\* C34: a token obtained by one Descriptor's Auth Provider is injected only
\* into requests of that Descriptor: two Descriptors for the same host with
\* different credentials never read each other's cached token.
C34_OwnTokenOnly ==
  \A c \in Calls : used[c] # 0 => IssuedTo(tok[c]) = cred[c]

\* ----------------------------------------------------------- token lifetime
\* Descriptors whose Auth Provider returns an expiry equal to the current
\* time with every token (expires_in absent or 0)
InitExpired ==
  /\ SetupWith({a \in APIs : a.URL /\ ~a.limiter /\ a.Authorization /\ ~a.Errors},
               { f \in [Calls -> {e \in Endpoints : ~e.limiter /\ e.body = "b1"}] :
                     Derived(f) },
               {FALSE}, {FALSE}, {NoCreds})
  /\ expires = [c \in Calls |-> <<0>>]
  /\ NoRequests
  /\ NoOp
  /\ NoValues
  /\ NoTasks

SpecExpired == InitExpired /\ [][Next]_vars

\* the Auth Provider gave call c a token that is valid no longer than now
ExpiredOnArrival(c) == expires[c] = <<0>> /\ tok[c] # <<>>

\* the token call c obtained is the one in the Store
TokenCached(c) ==
  TokenKey \in DOMAIN Cache /\ Cache[TokenKey] = MarshalString(tok[c])

\* C37: a token is cached only for its own remaining lifetime: when the Auth
\* Provider returns an expiry that is not after the current time, the token
\* is not cached, whatever the Descriptor's default response TTL.
C37_OwnLifetimeOnly ==
  \A c \in Calls : ExpiredOnArrival(c) => ~TokenCached(c)

\* ------------------------------------------------------------ response body
\* execute has returned from a call that got a response from the transport
Returned(c) == pc[c] = "done" /\ resp[c] # <<>>

\* C35: every response body obtained from the transport during execute is
\* closed before execute returns, on the success path as well as on the
\* upstream-error path.
C35_BodiesClosed ==
  \A c \in Calls : Returned(c) => resp[c][1].closed

\* -------------------------------------------------------------------- OAuth
\* the token request the OAuth provider builds: NewEndpoint(url).Lock(true)
\* with the form Content-Type and the Basic credentials of the Descriptor
TokenEndpoint(c) ==
  [method |-> "POST", path |-> "/token",
   headers |-> ("Content-Type" :> <<"application/x-www-form-urlencoded">>)
                 @@ ("Authorization" :> (<<"Basic">> \o cred[c])),
   body |-> "grant_type=client_credentials", key |-> "", cache |-> 0,
   limiter |-> FALSE, lock |-> TRUE]

\* the key the token request is executed under
tokenKey(c) ==
  hash(TokenEndpoint(c), SetToSeq(DOMAIN HeadersOf(TokenEndpoint(c))))

\* the handle the token request locks: NewLocker called anew, inside the
\* Authorization call of c
TokenLock(c) == NewLocker(<<c, "token">>, tokenKey(c))

\* the OAuth provider up to mu.Lock() of the token request's execute
OAuthLock(c) ==
  /\ pc[c] = "provider"
  /\ CanLock(TokenLock(c))
  /\ holds' = [holds EXCEPT ![c] = Append(@, TokenLock(c))]
  /\ Goto(c, "token")
  /\ UNCHANGED <<config, Cache, deadline, limiters, mu, client, builds,
                 authCalls, hit, sawNil, b, tok, used, resp, waited, out>>

\* the token request is answered and its execute returns, the deferred
\* mu.Unlock() run; then API.auth from the Authorization call on
OAuthToken(c) ==
  /\ pc[c] = "token"
  /\ authCalls' = authCalls + 1
  /\ \E r \in ProviderResults(c) :
       IF r.err \/ TrimSpace(r.tkn) = <<>>
          THEN /\ Return(c, Result("AuthError", <<>>))
               /\ UNCHANGED <<Cache, deadline, tok>>
          ELSE /\ Cache' = set(TokenKey, TrimSpace(r.tkn), r.expires)
               /\ deadline' = setDeadline(TokenKey, r.expires)
               /\ tok' = [tok EXCEPT ![c] = TrimSpace(r.tkn)]
               /\ holds' = [holds EXCEPT ![c] = SubSeq(@, 1, Len(@) - 1)]
               /\ Goto(c, "dispatch")
               /\ UNCHANGED out
  /\ UNCHANGED <<config, limiters, mu, client, builds, hit, sawNil, b, used,
                 resp, waited>>

\* Descriptors with the OAuth provider and a key-exclusive Locker registered
InitOAuth ==
  /\ SetupWith({a \in APIs : a.URL /\ ~a.limiter /\ a.Authorization /\ ~a.Errors},
               { f \in [Calls -> {e \in Endpoints : ~e.limiter /\ e.cache = 0}] :
                     Derived(f) },
               {TRUE}, {FALSE}, Creds)
  /\ AnyLifetime
  /\ NoRequests
  /\ NoOp
  /\ NoValues
  /\ NoTasks

\* the steps of execute with the OAuth provider
StepOAuth(c) == Step(c) \/ OAuthLock(c) \/ OAuthToken(c)

NextOAuth == (\E c \in Calls : StepOAuth(c)) \/ Fatal

SpecOAuth == InitOAuth /\ [][NextOAuth]_vars

\* the scheduler runs every goroutine that can take a step, and the limiter,
\* the token endpoint and the transport return
SpecOAuthFair == SpecOAuth /\ \A c \in Calls : WF_vars(StepOAuth(c))

\* execute returned, or the process was aborted
Ended(c) == pc[c] \in {"done", "fatal"}

\* the request lock first, the token lock second and only inside the
\* Authorization call; a call waiting for a request lock holds nothing
LockOrder ==
  \A c \in Calls :
    /\ Len(holds[c]) <= 2
    /\ pc[c] = "lock" => holds[c] = <<>>
    /\ pc[c] = "provider" =>
         holds[c] = IF ep[c].lock THEN <<NewLocker(c, key(c))>> ELSE <<>>
    /\ pc[c] = "token" =>
         holds[c] = (IF ep[c].lock THEN <<NewLocker(c, key(c))>> ELSE <<>>)
                      \o <<TokenLock(c)>>
    /\ pc[c] \notin {"token", "fatal"} => Len(holds[c]) <= 1

\* while a call is not through, some call can take a step
NoDeadlock ==
  (\E c \in Calls : ~Ended(c)) => \E c \in Calls : ENABLED StepOAuth(c)

AllEnded == \A c \in Calls : Ended(c)

\* C36: with a key-exclusive Locker registered, concurrent execute calls never
\* deadlock: locks are acquired in the order request lock, then token-request
\* lock, no call waits for a request lock while it holds a token-request
\* lock, and every call terminates when the limiter, the Auth Provider and
\* the transport return.
C36_NoDeadlock == []LockOrder /\ []NoDeadlock /\ <>AllEnded

\* a call holds its request lock and the token-request lock while another
\* call, holding its own request lock, waits for the token-request lock
C36_Witness ==
  \E c, d \in Calls :
    /\ c # d
    /\ pc[c] = "token" /\ Len(holds[c]) = 2
    /\ pc[d] = "provider" /\ holds[d] # <<>>
    /\ TokenLock(d) = TokenLock(c)
    /\ ~ENABLED OAuthLock(d)

\* --------------------------------------------------------------------- Jobs
\* the names jobs are run under
JobNames == { "a", "b" }

\* the number of Run calls made
MaxJobs == 3

\* everything but the Jobs value
offJobs == <<api, ep, testMode, ctxDone, cred, expires, pubsub, locker, running, Cache,
             deadline, now, reqs, fps, op, vals, maps, domains>>

\* NewJobs: an empty running map and a live context; no goroutine started,
\* Close not called, a caller blocked in Wait
NewJobs ==
  [running |-> [n \in {} |-> 0], inst |-> <<>>, done |-> FALSE,
   close |-> "idle", seen |-> {}, next |-> "", wait |-> "blocked",
   fault |-> FALSE, raced |-> FALSE]

\* no call has panicked and the runtime has not aborted the process
Alive == ~jobs.fault

\* Close is inside its range over t.running
MidClose == jobs.close \in {"range", "terminate"}

\* ctx.Err() != nil for the context of goroutine i, a child of t.ctx
ctxErr(i) == jobs.inst[i].canceled \/ jobs.done

\* the body of Terminate for one name, under t.mu: the stored cancel function
\* is called and the name deleted; for a name not in the map the function is
\* nil and the call panics
terminate(j, n) ==
  IF n \notin DOMAIN j.running
  THEN [j EXCEPT !.fault = TRUE]
  ELSE [j EXCEPT
          !.inst = [i \in DOMAIN j.inst |->
                      [j.inst[i] EXCEPT
                         !.canceled = @ \/ i = j.running[n],
                         !.terminated = @ \/ j.inst[i].name = n]],
          !.running = [m \in DOMAIN j.running \ {n} |-> j.running[m]]]

\* Jobs.Run under t.mu: the cancel function of a new child context replaces
\* whatever was stored under the name, and the goroutine is started
JobsRun(n, p) ==
  /\ Alive
  /\ Len(jobs.inst) < MaxJobs
  /\ jobs' = [jobs EXCEPT
                !.running = [m \in DOMAIN jobs.running \cup {n} |->
                               IF m = n THEN Len(jobs.inst) + 1
                               ELSE jobs.running[m]],
                !.inst = Append(@, [name |-> n, periodic |-> p,
                                    canceled |-> FALSE, terminated |-> FALSE,
                                    pc |-> IF p THEN "select" ELSE "do"]),
                !.raced = @ \/ MidClose]
  /\ UNCHANGED offJobs

\* Jobs.Terminate(n) called from outside Close
JobsTerminate(n) ==
  /\ Alive
  /\ jobs' = [terminate(jobs, n) EXCEPT !.raced = @ \/ MidClose]
  /\ UNCHANGED offJobs

\* Jobs.Close is called
JobsCloseBegin ==
  /\ Alive
  /\ jobs.close = "idle"
  /\ jobs' = [jobs EXCEPT !.close = "range", !.seen = {}]
  /\ UNCHANGED offJobs

\* Close: the range over t.running, read without t.mu, yields a name not yet
\* produced, or ends
JobsCloseRange ==
  /\ Alive
  /\ jobs.close = "range"
  /\ IF DOMAIN jobs.running \ jobs.seen = {}
     THEN jobs' = [jobs EXCEPT !.close = "cancel"]
     ELSE \E n \in DOMAIN jobs.running \ jobs.seen :
            jobs' = [jobs EXCEPT !.close = "terminate", !.next = n,
                                 !.seen = @ \cup {n}]
  /\ UNCHANGED offJobs

\* Close: t.Terminate(n) for the name the range produced
JobsCloseTerminate ==
  /\ Alive
  /\ jobs.close = "terminate"
  /\ jobs' = [terminate(jobs, jobs.next) EXCEPT !.close = "range"]
  /\ UNCHANGED offJobs

\* Close: t.cancel(), and Close returns
JobsCloseCancel ==
  /\ Alive
  /\ jobs.close = "cancel"
  /\ jobs' = [jobs EXCEPT !.done = TRUE, !.close = "returned"]
  /\ UNCHANGED offJobs

\* Jobs.Wait: <-t.ctx.Done()
JobsWait ==
  /\ Alive
  /\ jobs.wait = "blocked"
  /\ jobs.done
  /\ jobs' = [jobs EXCEPT !.wait = "returned"]
  /\ UNCHANGED offJobs

\* goroutine i is inside j.Do under the lock of its name
Doing(i) == jobs.inst[i].periodic /\ jobs.inst[i].pc = "do"

\* Jobs.run, the ticker case of the select: NewLocker(ctx, name).Lock(), and
\* j.Do is started
JobTick(i) ==
  /\ Alive
  /\ i <= Len(jobs.inst)
  /\ jobs.inst[i].pc = "select"
  /\ locker =>
       \A k \in DOMAIN jobs.inst :
         Doing(k) => jobs.inst[k].name # jobs.inst[i].name
  /\ jobs' = [jobs EXCEPT !.inst[i].pc = "do"]
  /\ UNCHANGED offJobs

\* Jobs.run: j.Do returns; the goroutine of a job without interval is done,
\* the other unlocks and selects again
JobDo(i) ==
  /\ Alive
  /\ i <= Len(jobs.inst)
  /\ jobs.inst[i].pc = "do"
  /\ jobs' = [jobs EXCEPT
                !.inst[i].pc = IF jobs.inst[i].periodic THEN "select"
                               ELSE "exited"]
  /\ UNCHANGED offJobs

\* Jobs.run, the ctx.Done() case of the select: the goroutine returns
JobExit(i) ==
  /\ Alive
  /\ i <= Len(jobs.inst)
  /\ jobs.inst[i].pc = "select"
  /\ ctxErr(i)
  /\ jobs' = [jobs EXCEPT !.inst[i].pc = "exited"]
  /\ UNCHANGED offJobs

\* the map was written while Close ranged over it: the runtime may abort the
\* process ("concurrent map iteration and map write")
JobsFatal ==
  /\ Alive
  /\ jobs.raced
  /\ MidClose
  /\ jobs' = [jobs EXCEPT !.fault = TRUE]
  /\ UNCHANGED offJobs

InitJobs ==
  /\ SetupOf({ZeroAPI}, {[c \in Calls |-> CHOOSE e \in Endpoints : TRUE]},
             BOOLEAN, {FALSE})
  /\ NoRequests
  /\ NoOp
  /\ NoValues
  /\ jobs = NewJobs
  /\ pubsub = <<>>

Goroutines == 1..MaxJobs

NextJobs ==
  \/ \E n \in JobNames, p \in BOOLEAN : JobsRun(n, p)
  \/ \E n \in JobNames : JobsTerminate(n)
  \/ JobsCloseBegin
  \/ JobsCloseRange
  \/ JobsCloseTerminate
  \/ JobsCloseCancel
  \/ JobsWait
  \/ \E i \in Goroutines : JobTick(i) \/ JobDo(i) \/ JobExit(i)
  \/ JobsFatal

SpecJobs == InitJobs /\ [][NextJobs]_vars

\* j.Do returns, a select with the Done case ready takes it in the end, and
\* a caller inside Close goes on
SpecJobsFair ==
  /\ SpecJobs
  /\ \A i \in Goroutines : WF_vars(JobDo(i)) /\ SF_vars(JobExit(i))
  /\ WF_vars(JobsCloseRange \/ JobsCloseTerminate \/ JobsCloseCancel)
  /\ WF_vars(JobsWait)

\* a Terminate call for the name of goroutine i has returned since i started
Terminated(i) == i <= Len(jobs.inst) /\ jobs.inst[i].terminated

\* goroutine i has returned, or the process is gone
Exited(i) == i <= Len(jobs.inst) /\ (jobs.inst[i].pc = "exited" \/ jobs.fault)

\* a terminated name is not in the running set
TerminatedRemoved ==
  \A n \in JobNames :
    ENABLED JobsTerminate(n) /\ n \in DOMAIN jobs.running
      => n \notin DOMAIN terminate(jobs, n).running

\* once Close has returned nothing runs, every context is canceled and Wait
\* can return
CloseLeavesNothing ==
  jobs.close = "returned" =>
    /\ DOMAIN jobs.running = {}
    /\ \A i \in DOMAIN jobs.inst : ctxErr(i)
    /\ jobs.wait = "returned" \/ ENABLED JobsWait

\* C38: after Jobs.Terminate(name) returns, name is no longer in the running
\* set and, under fairness, that job's goroutine eventually exits; after
\* Jobs.Close returns the running set is empty, every job context is canceled
\* and Wait returns.
C38_TerminateAndClose ==
  /\ []TerminatedRemoved
  /\ \A i \in Goroutines : [](Terminated(i) => <>Exited(i))
  /\ []CloseLeavesNothing

\* C39: Jobs.Terminate and Jobs.Close never fault: terminating a name that is
\* not in the running set is a no-op, and Close reads the running set only in
\* mutual exclusion with Run and Terminate.
C39_NeverFaults == ~jobs.fault /\ ~jobs.raced

\* ------------------------------------------------------------------- PubSub
\* the number of Subscribe calls and of Publish calls on the one topic
MaxSubs == 2
MaxPubs == 2

\* a subscriber and its channel; a Publish call
Subs == 1..MaxSubs
Pubs == 1..MaxPubs

\* everything but the in-memory PubSub
offPubSub == <<api, ep, testMode, ctxDone, cred, expires, jobs, locker, running, Cache,
               deadline, now, reqs, fps, op, vals, maps, domains>>

\* pubsubMem: no topic; the slice of a topic is [arr, len], arr an array of
\* heap (0 for nil); no channel made, no Publish called
NewPubSub ==
  [heap |-> <<>>, topic |-> [arr |-> 0, len |-> 0],
   sub |-> [s \in Subs |-> "none"],
   got |-> [s \in Subs |-> FALSE],
   pub |-> [p \in Pubs |-> [pc |-> "idle", arr |-> 0, len |-> 0, idx |-> 0]],
   fault |-> FALSE]

\* no goroutine has panicked
Up == ~pubsub.fault

\* cap(s) of a slice on array a
cap(a) == IF a = 0 THEN 0 ELSE Len(pubsub.heap[a])

\* append(s, ch): in place while the array has room, else into a new array
\* of twice the room
appendHeap(ch) ==
  LET t == pubsub.topic
      n == IF cap(t.arr) = 0 THEN 1 ELSE 2 * cap(t.arr)
  IN IF t.len < cap(t.arr)
     THEN [pubsub.heap EXCEPT ![t.arr][t.len + 1] = ch]
     ELSE Append(pubsub.heap,
                 [i \in 1..n |-> IF i <= t.len THEN pubsub.heap[t.arr][i]
                                 ELSE IF i = t.len + 1 THEN ch ELSE 0])

appendSlice(ch) ==
  LET t == pubsub.topic
  IN IF t.len < cap(t.arr) THEN [t EXCEPT !.len = @ + 1]
     ELSE [arr |-> Len(pubsub.heap) + 1, len |-> t.len + 1]

\* the places of ch in the topic's slice
placesOf(ch) ==
  { i \in 1..pubsub.topic.len : pubsub.heap[pubsub.topic.arr][i] = ch }

first(S) == CHOOSE i \in S : \A k \in S : i <= k

\* append(subs[:i], subs[i+1:]...): the elements behind i move down one place
\* in the array the slice is on
removeHeap(i) ==
  LET t == pubsub.topic
  IN [pubsub.heap EXCEPT
        ![t.arr] = [k \in DOMAIN @ |->
                      IF k >= i /\ k < t.len THEN @[k + 1] ELSE @[k]]]

\* Subscribe: an unbuffered channel is made and appended under m.mu.Lock()
Subscribe(s) ==
  /\ Up
  /\ pubsub.sub[s] = "none"
  /\ pubsub' = [pubsub EXCEPT !.heap = appendHeap(s),
                              !.topic = appendSlice(s),
                              !.sub[s] = "waiting"]
  /\ UNCHANGED offPubSub

\* the subscriber's context is canceled
Cancel(s) ==
  /\ Up
  /\ pubsub.sub[s] = "waiting"
  /\ pubsub' = [pubsub EXCEPT !.sub[s] = "canceled"]
  /\ UNCHANGED offPubSub

\* the goroutine of Subscribe after <-ctx.Done(): under m.mu.Lock() the
\* channel is taken out of the topic
Remove(s) ==
  /\ Up
  /\ pubsub.sub[s] = "canceled"
  /\ pubsub' = [pubsub EXCEPT
                  !.heap = IF placesOf(s) = {} THEN @
                           ELSE removeHeap(first(placesOf(s))),
                  !.topic.len = IF placesOf(s) = {} THEN @ ELSE @ - 1,
                  !.sub[s] = "removed"]
  /\ UNCHANGED offPubSub

\* the goroutine of Subscribe after m.mu.Unlock(): close(ch)
Close(s) ==
  /\ Up
  /\ pubsub.sub[s] = "removed"
  /\ pubsub' = [pubsub EXCEPT !.sub[s] = "closed"]
  /\ UNCHANGED offPubSub

\* Publish: the topic's slice is copied under m.mu.RLock(); no subscriber is
\* an error
Publish(p) ==
  /\ Up
  /\ pubsub.pub[p].pc = "idle"
  /\ pubsub' = [pubsub EXCEPT
                  !.pub[p] = IF pubsub.topic.len = 0
                             THEN [@ EXCEPT !.pc = "failed"]
                             ELSE [pc |-> "send", arr |-> pubsub.topic.arr,
                                   len |-> pubsub.topic.len, idx |-> 1]]
  /\ UNCHANGED offPubSub

\* the channel the range of Publish reads at its index, outside the lock
chanAt(p) == pubsub.heap[pubsub.pub[p].arr][pubsub.pub[p].idx]

\* Publish: select { case ch <- msg: default: } for the next channel of the
\* copy: a send on a closed channel panics, else the message is taken by a
\* waiting receiver or dropped
Send(p) ==
  /\ Up
  /\ pubsub.pub[p].pc = "send"
  /\ LET ch == chanAt(p)
         q  == [pubsub.pub[p] EXCEPT
                  !.idx = @ + 1,
                  !.pc = IF pubsub.pub[p].idx = pubsub.pub[p].len
                         THEN "done" ELSE "send"]
     IN IF pubsub.sub[ch] = "closed"
        THEN pubsub' = [pubsub EXCEPT !.fault = TRUE]
        ELSE \E taken \in BOOLEAN :
               pubsub' = [pubsub EXCEPT !.pub[p] = q,
                                        !.got[ch] = @ \/ taken]
  /\ UNCHANGED offPubSub

InitPubSub ==
  /\ AtRest
  /\ NoRequests
  /\ NoOp
  /\ NoValues
  /\ jobs = <<>>
  /\ pubsub = NewPubSub

NextPubSub ==
  \/ \E s \in Subs : Subscribe(s) \/ Cancel(s) \/ Remove(s) \/ Close(s)
  \/ \E p \in Pubs : Publish(p) \/ Send(p)

SpecPubSub == InitPubSub /\ [][NextPubSub]_vars

\* C40: in the in-memory PubSub, Publish never sends on a subscriber channel
\* that has been closed: under any interleaving of Publish with a
\* subscriber's context cancellation no send to the channel occurs after the
\* close.
C40_NoSendOnClosed == ~pubsub.fault

====
